---------------------------- MODULE Spec2Model ----------------------------
(***************************************************************************)
(* POBEER trade copier: the leader watcher, the reconciler, the trade      *)
(* copier, the position ledger and the quarterly invoice generator,        *)
(* modelled over the relational store they share.                          *)
(*                                                                         *)
(* Tables are sequences of rows in insertion order; a row's id is its      *)
(* index and its createdAt is the store clock at insertion.  Numbers are   *)
(* fixed-point: balances, caps and prices in whole USDT, the sized         *)
(* notional (tradeUsdt) in cents, base-asset quantities in thousandths of  *)
(* a unit, hence realized P&L in thousandths of a USDT.  A nullable column *)
(* holds NULL when it is SQL NULL.                                         *)
(***************************************************************************)
EXTENDS Integers, Sequences, FiniteSets, TLC

VARIABLES
    leaderTrades,    \* table leader_trades
    followerTrades,  \* table follower_trades
    positions,       \* table positions
    fees,            \* table fees
    users,           \* table users, the follower rows
    placedOrders,    \* market orders the followers' exchange accounts accepted
    exchangeOrders,  \* the leader's orders as the exchange holds them
    phase,           \* worker process: "down", "streaming"
    observed,        \* order ids handed to processOrder or to the reconcile loop
    copierCalls,     \* per order id, the copyBuy/copySell invocations
    ledgerCalls,     \* per order id, the leader openPosition/closePosition calls
    reconciled,      \* <<order id, polled status>> of the rows the Reconciler inserted
    processed,       \* <<LeaderTrade id, follower>> pairs the copier processed
    sizings,         \* the balance and settings each buy was sized from
    handles,         \* <<LeaderTrade id, follower>> of the exchange clients the copier created
    lastCall,        \* the last Position Ledger call and what it returned
    invoices,        \* table invoices
    systemConfig,    \* system_config rows of key last_invoice_generation: the values
    snapshots,       \* per follower, the quarter's balance snapshots and equity
    today,           \* the date new Date() gives: [year, month, day]
    watcher,         \* the LeaderWatcher object and where start() and stop() stand
    pendingTrades,   \* table pending_trades
    requests,        \* decide requests and expirer runs in flight
    balanceSnapshots,\* table balance_snapshots
    snapshotRuns,    \* BalanceSnapshotJob: runs in flight, marker, last fetches
    clock,           \* the time new Date() gives, in minutes
    scheduler,       \* the job scheduler's timer and what its ticks did
    notifications    \* table notifications

vars == <<leaderTrades, followerTrades, positions, fees, users, placedOrders,
          exchangeOrders, phase, observed, copierCalls, ledgerCalls,
          reconciled, processed, sizings, handles, lastCall, invoices,
          systemConfig, snapshots, today, watcher, pendingTrades, requests,
          balanceSnapshots, snapshotRuns, clock, scheduler, notifications>>

invoiceVars == <<invoices, systemConfig, snapshots, today>>

serviceVars == <<watcher, pendingTrades, requests, balanceSnapshots,
                 snapshotRuns, clock, scheduler, notifications>>

-----------------------------------------------------------------------------
(* Values *)

NULL == -1

LEADER == "leader"
Followers == {"f1", "f2"}
Symbols == {"BTC/USDT", "ETH/USDT"}

Min(a, b) == IF a <= b THEN a ELSE b

\* JavaScript truthiness of a number-or-undefined (0, NaN, undefined are falsy).
Truthy(x) == x # NULL /\ x # 0

-----------------------------------------------------------------------------
(* Position Ledger: src/src/worker/position-tracker.ts *)

\* A store is the record of the tables a handler reads and writes.
Store == [leaderTrades |-> leaderTrades, followerTrades |-> followerTrades,
          positions |-> positions, fees |-> fees, users |-> users,
          placedOrders |-> placedOrders, observed |-> observed,
          copierCalls |-> copierCalls, ledgerCalls |-> ledgerCalls,
          reconciled |-> reconciled, processed |-> processed,
          sizings |-> sizings, handles |-> handles]

NewPosition(userId, symbol, entryPrice, entryQuantity, positionGroupId, at) ==
    [userId |-> userId, symbol |-> symbol, side |-> "buy",
     entryPrice |-> entryPrice, entryQuantity |-> entryQuantity,
     exitPrice |-> NULL, exitQuantity |-> NULL, realizedPnl |-> NULL,
     status |-> "open", positionGroupId |-> positionGroupId,
     createdAt |-> at]

\* openPosition: always inserts a new open row.
openPosition(db, userId, symbol, entryPrice, entryQuantity, positionGroupId) ==
    [db EXCEPT !.positions =
        Append(@, NewPosition(userId, symbol, entryPrice, entryQuantity,
                              positionGroupId, Len(@) + 1))]

OpenPositionsOf(ps, userId, symbol) ==
    {i \in 1..Len(ps) : /\ ps[i].userId = userId
                        /\ ps[i].symbol = symbol
                        /\ ps[i].status = "open"}

\* The open lot with the largest createdAt: what an unordered select may
\* return, and the close order a LIFO ledger would use.
NewestOpen(ps, userId, symbol) ==
    LET open == OpenPositionsOf(ps, userId, symbol)
    IN  IF open = {} THEN 0
        ELSE CHOOSE i \in open : \A j \in open : ps[i].createdAt >= ps[j].createdAt

\* ... orderBy(createdAt).limit(1): the open row with the smallest createdAt,
\* 0 when there is none.
OldestOpen(ps, userId, symbol) ==
    LET open == OpenPositionsOf(ps, userId, symbol)
    IN  IF open = {} THEN 0
        ELSE CHOOSE i \in open : \A j \in open : ps[i].createdAt <= ps[j].createdAt

\* The requested quantity taken as it comes, without the cap at the lot.
RequestedQuantity(exitQuantity, entryQty) == exitQuantity

CloseQuantity(exitQuantity, entryQty) == Min(exitQuantity, entryQty)

RealizedPnl(exitPrice, entryPrice, closeQty) == (exitPrice - entryPrice) * closeQty

\* closePosition: [db, pnl]; pnl = NULL and nothing written when no open row.
closePosition(db, userId, symbol, exitPrice, exitQuantity) ==
    LET i == OldestOpen(db.positions, userId, symbol)
    IN  IF i = 0 THEN [db |-> db, found |-> FALSE, pnl |-> NULL, id |-> 0]
        ELSE LET p == db.positions[i]
                 closeQty == CloseQuantity(exitQuantity, p.entryQuantity)
                 realizedPnl == RealizedPnl(exitPrice, p.entryPrice, closeQty)
             IN  [db |-> [db EXCEPT !.positions[i] =
                            [p EXCEPT !.exitPrice = exitPrice,
                                      !.exitQuantity = closeQty,
                                      !.realizedPnl = realizedPnl,
                                      !.status = "closed"]],
                  found |-> TRUE, pnl |-> realizedPnl, id |-> i]

-----------------------------------------------------------------------------
(* Errors.  A message is known by the substrings the code tests it for. *)

NoError == "none"
StoreError == "Connection terminated unexpectedly"
ExchangeErrors == {"429 rate limit", "request timeout", "Invalid API key",
                   "Insufficient funds"}

Includes(msg, sub) ==
    CASE msg = "429 rate limit"  -> sub \in {"rate", "429"}
      [] msg = "request timeout" -> sub \in {"timeout"}
      [] msg = "Invalid API key" -> sub \in {"Invalid API"}
      [] OTHER                   -> FALSE

isAuthError(msg) ==
    Includes(msg, "Invalid API") \/ Includes(msg, "auth") \/ Includes(msg, "permission")

isRateLimit(msg) == Includes(msg, "rate") \/ Includes(msg, "429")

\* Every error taken for a transient network condition.
AnyErrorIsNetwork(msg) == TRUE

isNetwork(msg) ==
    Includes(msg, "network") \/ Includes(msg, "ECONNRESET") \/ Includes(msg, "timeout")

-----------------------------------------------------------------------------
(* Fee Calculator: src/src/worker/fee-calculator.ts *)

FEE_PERCENT == 2

\* A fee calculator that never writes a row.
calculateFeeNever(db, followerId, positionId, profitAmount) == db
\* calculateFee: one fees row, only for a positive profit.  feeAmount is kept
\* in hundredths of a USDT (profit * FEE_PERCENT / 100 USDT).
calculateFee(db, followerId, positionId, profitAmount) ==
    IF profitAmount <= 0 THEN db
    ELSE [db EXCEPT !.fees =
            Append(@, [followerId |-> followerId, positionId |-> positionId,
                       profitAmount |-> profitAmount, feePercent |-> FEE_PERCENT,
                       feeAmount |-> profitAmount * FEE_PERCENT,
                       status |-> "calculated"])]

-----------------------------------------------------------------------------
(* Trade Copier: src/src/worker/trade-copier.ts *)

MAX_RETRIES == 3
RETRY_BASE_DELAY == 1000

\* A wait growing by one base delay per attempt instead of doubling.
LinearBackoff(n) == n + 1

RECURSIVE Pow2(_)
Pow2(n) == IF n = 0 THEN 1 ELSE 2 * Pow2(n - 1)

\* retryOrder over the outcomes the exchange gives to successive attempts
\* ("ok" or an error message): [ok, error, attempts, delays].
RECURSIVE retryFrom(_, _, _)
retryFrom(outcomes, attempt, delays) ==
    IF attempt >= MAX_RETRIES
    THEN [ok |-> FALSE, error |-> outcomes[MAX_RETRIES], attempts |-> attempt,
          delays |-> delays]
    ELSE LET o == outcomes[attempt + 1]
         IN  IF o = "ok"
             THEN [ok |-> TRUE, error |-> NoError, attempts |-> attempt + 1,
                   delays |-> delays]
             ELSE IF ~isRateLimit(o) /\ ~isNetwork(o)
             THEN [ok |-> FALSE, error |-> o, attempts |-> attempt + 1,
                   delays |-> delays]
             ELSE retryFrom(outcomes, attempt + 1,
                            Append(delays, RETRY_BASE_DELAY * Pow2(attempt)))

retryOrder(outcomes) == retryFrom(outcomes, 0, <<>>)

insertFollowerTrade(db, leaderTradeId, followerId, symbol, side, status, ratioUsed, bybitOrderId, avgFillPrice, errorMessage) ==
    [db EXCEPT !.followerTrades =
        Append(@, [leaderTradeId |-> leaderTradeId, followerId |-> followerId,
                   symbol |-> symbol, side |-> side, status |-> status,
                   ratioUsed |-> ratioUsed, bybitOrderId |-> bybitOrderId,
                   avgFillPrice |-> IF Truthy(avgFillPrice) THEN avgFillPrice ELSE NULL,
                   errorMessage |-> errorMessage])]

\* placeMarketOrder accepted by the exchange: the order exists on the account.
placeMarketOrder(db, followerId, leaderTradeId, symbol, side, amount) ==
    [db EXCEPT !.placedOrders =
        Append(@, [followerId |-> followerId, leaderTradeId |-> leaderTradeId,
                   symbol |-> symbol, side |-> side, amount |-> amount])]

\* Number(follower.copyRatioPercent) || 10
RatioOf(u) == IF Truthy(u.copyRatioPercent) THEN u.copyRatioPercent ELSE 10

\* A sizing that ignores the follower's cap.
TradeUsdtUncapped(availableUsdt, ratio, maxTradeUsd) == availableUsdt * ratio

\* min(balance * ratio%, maxTradeUsd or Infinity), in cents:
\* availableUsdt * (ratio / 100) USDT is availableUsdt * ratio cents.
TradeUsdt(availableUsdt, ratio, maxTradeUsd) ==
    LET t == availableUsdt * ratio
    IN  IF maxTradeUsd = NULL THEN t ELSE Min(t, maxTradeUsd * 100)

MIN_TRADE_USDT == 1

\* A floor that only rejects an empty notional.
FloorAtZero(tradeUsdt) == tradeUsdt <= 0

\* tradeUsdt < 1, tradeUsdt in cents
BelowFloor(tradeUsdt) == tradeUsdt < MIN_TRADE_USDT * 100

\* tradeUsdt / fillPrice in thousandths of a unit (cents * 10 = thousandths
\* of a USDT)
Quantity(tradeUsdt, fillPrice) == (tradeUsdt * 10) \div fillPrice

\* A store write of this follower's processing throws when the fault names
\* it; "down" makes every write throw, the catch block's included.
WriteFails(fault, write) == fault = "down" \/ fault = write

\* createExchange({ apiKey, apiSecret }): a client for follower f is made
\* while leaderTrade id is copied.
createExchange(db, id, f) == [db EXCEPT !.handles = @ \cup {<<id, f>>}]

\* catch block of executeBuyForFollower
catchBuy(db, f, lt, ratio, errorMsg, fault) ==
    IF WriteFails(fault, "failedTrade") THEN db
    ELSE LET d1 == insertFollowerTrade(db, lt.id, f, lt.symbol, "buy", "failed",
                                       ratio, NULL, NULL, errorMsg)
         IN  IF isAuthError(errorMsg)
             THEN [d1 EXCEPT !.users[f].copyingEnabled = FALSE]
             ELSE d1

executeBuyForFollower(dbIn, f, lt, fillPrice, env) ==
    LET db0 == createExchange([dbIn EXCEPT !.processed = @ \cup {<<lt.id, f>>}],
                              lt.id, f)
        u == db0.users[f]
        db == [db0 EXCEPT !.sizings = @ \cup
                 {[leaderTradeId |-> lt.id, followerId |-> f, free |-> env.free,
                   copyRatioPercent |-> u.copyRatioPercent,
                   maxTradeUsd |-> u.maxTradeUsd]}]
        ratio == RatioOf(u)
        tradeUsdt == TradeUsdt(env.free, ratio, u.maxTradeUsd)
        quantity == Quantity(tradeUsdt, fillPrice)
        result == retryOrder(env.attempts)
        avg == IF env.average # NULL THEN env.average ELSE fillPrice
        qty == IF Truthy(env.filled) THEN env.filled ELSE quantity
        d1 == placeMarketOrder(db, f, lt.id, lt.symbol, "buy", quantity)
        d2 == insertFollowerTrade(d1, lt.id, f, lt.symbol, "buy", "filled",
                                  ratio, Len(d1.placedOrders), avg, NULL)
        d3 == openPosition(d2, f, lt.symbol, avg, qty, lt.positionGroupId)
    IN  IF env.balanceError # NoError
        THEN catchBuy(db0, f, lt, ratio, env.balanceError, env.fault)
        ELSE IF BelowFloor(tradeUsdt)
        THEN IF WriteFails(env.fault, "followerTrade")
             THEN catchBuy(db, f, lt, ratio, StoreError, env.fault)
             ELSE insertFollowerTrade(db, lt.id, f, lt.symbol, "buy", "skipped",
                                      ratio, NULL, NULL, "Insufficient balance")
        ELSE IF ~result.ok
        THEN catchBuy(db, f, lt, ratio, result.error, env.fault)
        ELSE IF WriteFails(env.fault, "followerTrade")
        THEN catchBuy(d1, f, lt, ratio, StoreError, env.fault)
        ELSE IF WriteFails(env.fault, "position")
        THEN catchBuy(d2, f, lt, ratio, StoreError, env.fault)
        ELSE d3

\* A catch block that also closes the follower's lot.
catchSellClosing(db, f, lt, errorMsg, fault) ==
    closePosition(insertFollowerTrade(db, lt.id, f, lt.symbol, "sell", "failed",
                                      RatioOf(db.users[f]), NULL, NULL, errorMsg),
                  f, lt.symbol, lt.avgFillPrice, 0).db

\* catch block of executeSellForFollower
catchSell(db, f, lt, errorMsg, fault) ==
    IF WriteFails(fault, "failedTrade") THEN db
    ELSE insertFollowerTrade(db, lt.id, f, lt.symbol, "sell", "failed",
                             RatioOf(db.users[f]), NULL, NULL, errorMsg)

\* select ... where open .limit(1), no ordering: any open row of the follower
\* and symbol; env.pickNewest tells which end of the lots the store returns.
AnyOpen(ps, userId, symbol, pickNewest) ==
    IF pickNewest THEN NewestOpen(ps, userId, symbol)
    ELSE OldestOpen(ps, userId, symbol)

noOpenPositionAfterConnect(db, f, lt) == createExchange(db, lt.id, f)
\* if (openPosition.length === 0) { log; return; }
noOpenPosition(db, f, lt) == db

executeSellForFollower(dbIn, f, lt, fillPrice, env) ==
    LET seen == [dbIn EXCEPT !.processed = @ \cup {<<lt.id, f>>}]
        i == AnyOpen(seen.positions, f, lt.symbol, env.pickNewest)
        db == createExchange(seen, lt.id, f)
    IN  IF i = 0 THEN noOpenPosition(seen, f, lt)
        ELSE
        LET position == db.positions[i]
            sellQuantity == position.entryQuantity
            result == retryOrder(env.attempts)
            exitPrice == IF env.average # NULL THEN env.average ELSE fillPrice
            d1 == placeMarketOrder(db, f, lt.id, lt.symbol, "sell", sellQuantity)
            d2 == insertFollowerTrade(d1, lt.id, f, lt.symbol, "sell", "filled",
                                      RatioOf(db.users[f]), Len(d1.placedOrders),
                                      exitPrice, NULL)
            closed == closePosition(d2, f, lt.symbol, exitPrice,
                                    IF Truthy(env.filled) THEN env.filled
                                    ELSE sellQuantity)
            d3 == closed.db
            d4 == calculateFee(d3, f, i, closed.pnl)
        IN  IF ~result.ok
            THEN catchSell(db, f, lt, result.error, env.fault)
            ELSE IF WriteFails(env.fault, "followerTrade")
            THEN catchSell(d1, f, lt, StoreError, env.fault)
            ELSE IF WriteFails(env.fault, "position")
            THEN catchSell(d2, f, lt, StoreError, env.fault)
            ELSE IF closed.found /\ closed.pnl > 0
            THEN IF WriteFails(env.fault, "fee")
                 THEN catchSell(d3, f, lt, StoreError, env.fault)
                 ELSE d4
            ELSE d3

FollowerOrder == <<"f1", "f2">>

\* The rows of table users: the leader and the followers, with their role.
UserOrder == <<LEADER>> \o FollowerOrder
Role(u) == IF u = LEADER THEN "leader" ELSE "follower"

\* Every user with role follower, whatever the copying flag says.
getFollowers(db) == SelectSeq(UserOrder, LAMBDA u : Role(u) = "follower")
\* getActiveFollowers: role = follower and copyingEnabled, read once per call.
getActiveFollowers(db) ==
    SelectSeq(UserOrder,
              LAMBDA u : Role(u) = "follower" /\ db.users[u].copyingEnabled)

\* A batch that gives up at the first follower whose processing fails.
RECURSIVE copyBuyLoopAbortOnFailure(_, _, _, _, _)
copyBuyLoopAbortOnFailure(db, followers, lt, fillPrice, envs) ==
    IF followers = <<>> THEN db
    ELSE LET d == executeBuyForFollower(db, Head(followers), lt, fillPrice,
                                        envs[Head(followers)])
             n == Len(d.followerTrades)
         IN  IF n = Len(db.followerTrades) \/ d.followerTrades[n].status = "failed"
             THEN d
             ELSE copyBuyLoopAbortOnFailure(d, Tail(followers), lt, fillPrice, envs)

RECURSIVE copyBuyLoop(_, _, _, _, _)
copyBuyLoop(db, followers, lt, fillPrice, envs) ==
    IF followers = <<>> THEN db
    ELSE copyBuyLoop(executeBuyForFollower(db, Head(followers), lt, fillPrice,
                                           envs[Head(followers)]),
                     Tail(followers), lt, fillPrice, envs)

copyBuy(db, lt, fillPrice, fillQuantity, envs) ==
    copyBuyLoop(db, getActiveFollowers(db), lt, fillPrice, envs)

RECURSIVE copySellLoop(_, _, _, _, _)
copySellLoop(db, followers, lt, fillPrice, envs) ==
    IF followers = <<>> THEN db
    ELSE copySellLoop(executeSellForFollower(db, Head(followers), lt, fillPrice,
                                             envs[Head(followers)]),
                      Tail(followers), lt, fillPrice, envs)

copySell(db, lt, fillPrice, envs) ==
    copySellLoop(db, getActiveFollowers(db), lt, fillPrice, envs)

-----------------------------------------------------------------------------
(* Fee brackets (src/unnamed/part_009) and the Invoice Generator            *)
(* (src/src/worker/invoice-generator.ts).  Amounts in whole EUR / USDT.     *)

BASE_FEE == 297

Infinity == 1000000000

FEE_BRACKETS ==
    << [label |-> "No Profit", minProfit |-> -Infinity, maxProfit |-> 0, fee |-> 0],
       [label |-> "Bronze", minProfit |-> 0, maxProfit |-> 2500, fee |-> 0],
       [label |-> "Silver", minProfit |-> 2500, maxProfit |-> 10000, fee |-> 197],
       [label |-> "Gold", minProfit |-> 10000, maxProfit |-> 25000, fee |-> 497],
       [label |-> "Platinum", minProfit |-> 25000, maxProfit |-> 50000, fee |-> 997],
       [label |-> "Diamond", minProfit |-> 50000, maxProfit |-> Infinity, fee |-> 1997] >>

\* Brackets read with the lower bound exclusive and the upper bound inclusive.
getBracketUpperInclusive(profit) ==
    LET fits == {i \in 1..Len(FEE_BRACKETS) :
                    /\ profit > FEE_BRACKETS[i].minProfit
                    /\ profit <= FEE_BRACKETS[i].maxProfit}
    IN  IF fits = {} THEN FEE_BRACKETS[1]
        ELSE FEE_BRACKETS[CHOOSE i \in fits : \A j \in fits : i <= j]

getBracket(profit) ==
    LET fits == {i \in 1..Len(FEE_BRACKETS) :
                    /\ profit >= FEE_BRACKETS[i].minProfit
                    /\ profit < FEE_BRACKETS[i].maxProfit}
    IN  IF fits = {} THEN FEE_BRACKETS[1]
        ELSE FEE_BRACKETS[CHOOSE i \in fits : \A j \in fits : i <= j]

\* A fee without the flat base fee.
calculateTotalFeeBracketOnly(profit) ==
    LET bracket == getBracket(profit)
        bracketFee == IF profit <= 0 THEN 0 ELSE bracket.fee
    IN  [baseFee |-> 0, bracketFee |-> bracketFee,
         bracketLabel |-> bracket.label, totalFee |-> bracketFee]

calculateTotalFee(profit) ==
    LET bracket == getBracket(profit)
        bracketFee == IF profit <= 0 THEN 0 ELSE bracket.fee
    IN  [baseFee |-> BASE_FEE, bracketFee |-> bracketFee,
         bracketLabel |-> bracket.label, totalFee |-> BASE_FEE + bracketFee]

calculateQuarterProfit(startEquity, endEquity, netDeposits, netWithdrawals) ==
    endEquity - startEquity - netDeposits + netWithdrawals

\* The quarter before the one the date lies in; the label "2026-Q1" is the
\* pair <<2026, 1>>.
getPreviousQuarter(date) ==
    LET year == date.year
        month == date.month
    IN  CASE month >= 1 /\ month <= 3 ->
               [label |-> <<year - 1, 4>>, start |-> <<year - 1, 10, 1>>,
                end |-> <<year - 1, 12, 31>>]
          [] month >= 4 /\ month <= 6 ->
               [label |-> <<year, 1>>, start |-> <<year, 1, 1>>,
                end |-> <<year, 3, 31>>]
          [] month >= 7 /\ month <= 9 ->
               [label |-> <<year, 2>>, start |-> <<year, 4, 1>>,
                end |-> <<year, 6, 30>>]
          [] OTHER ->
               [label |-> <<year, 3>>, start |-> <<year, 7, 1>>,
                end |-> <<year, 9, 30>>]

\* The date test alone, the stored marker never read.
shouldRunIgnoringMarker(now, config) ==
    ~(now.day # 1 \/ now.month \notin {1, 4, 7, 10})
\* InvoiceGenerator.shouldRun
shouldRun(now, config) ==
    IF now.day # 1 \/ now.month \notin {1, 4, 7, 10} THEN FALSE
    ELSE IF config # {} /\ config = {getPreviousQuarter(now).label} THEN FALSE
    ELSE TRUE

\* update invoices set status = 'emailed' where follower_id and quarter_label
markEmailed(invs, followerId, label) ==
    [i \in 1..Len(invs) |->
        IF invs[i].followerId = followerId /\ invs[i].quarterLabel = label
        THEN [invs[i] EXCEPT !.status = "emailed"]
        ELSE invs[i]]

\* generateForFollower: [invoices, created, threw].  env.fault names the
\* write that throws, env.emailSent is what sendInvoiceEmail returns.
generateForFollower(invs, f, quarter, snap, env) ==
    LET daysActive == snap.daysActive
        quarterProfit == calculateQuarterProfit(snap.startEquity, snap.endEquity,
                                                snap.netDeposits, snap.netWithdrawals)
        feeResult == calculateTotalFee(quarterProfit)
        inserted ==
            Append(invs, [followerId |-> f, quarterLabel |-> quarter.label,
                          periodStart |-> quarter.start, periodEnd |-> quarter.end,
                          invoiceAmount |-> feeResult.totalFee,
                          baseFee |-> feeResult.baseFee,
                          bracketFee |-> feeResult.bracketFee,
                          bracketLabel |-> feeResult.bracketLabel,
                          daysActive |-> daysActive,
                          quarterProfit |-> quarterProfit, status |-> "pending"])
        mailed == IF env.emailSent THEN markEmailed(inserted, f, quarter.label)
                  ELSE inserted
    IN  IF daysActive = 0
        THEN [invoices |-> invs, created |-> FALSE, threw |-> FALSE]
        ELSE IF feeResult.totalFee * 100 < 1
        THEN [invoices |-> invs, created |-> FALSE, threw |-> FALSE]
        ELSE IF env.fault = "invoice"
        THEN [invoices |-> invs, created |-> FALSE, threw |-> TRUE]
        ELSE IF env.fault = "notification"
        THEN [invoices |-> mailed, created |-> FALSE, threw |-> TRUE]
        ELSE [invoices |-> mailed, created |-> TRUE, threw |-> FALSE]

RECURSIVE runLoop(_, _, _, _, _)
runLoop(invs, followers, quarter, snaps, envs) ==
    IF followers = <<>> THEN invs
    ELSE runLoop(generateForFollower(invs, Head(followers), quarter,
                                     snaps[Head(followers)],
                                     envs[Head(followers)]).invoices,
                 Tail(followers), quarter, snaps, envs)

\* InvoiceGenerator.run: every follower in turn, a throw caught per follower,
\* then the upsert of last_invoice_generation (which throws when markerFails).
run(invs, config, quarter, snaps, envs, markerFails) ==
    [invoices |-> runLoop(invs, FollowerOrder, quarter, snaps, envs),
     systemConfig |-> IF markerFails THEN config ELSE {quarter.label}]

-----------------------------------------------------------------------------
(* The leader's orders on the exchange *)

Orders == {"o1", "o2"}
OrderSeq == <<"o1", "o2">>

OrderSide(o) == IF o = "o1" THEN "buy" ELSE "sell"
OrderSymbol(o) == "BTC/USDT"
OrderAmount(o) == 2000
FillPrice(o) == IF o = "o1" THEN 100 ELSE 120

\* The ccxt order an update or a poll carries for order o in a given state.
OrderPayload(o, state) ==
    [id |-> o, symbol |-> OrderSymbol(o), side |-> OrderSide(o),
     amount |-> OrderAmount(o),
     status |-> CASE state = "closed" -> "closed"
                  [] state = "canceled" -> "canceled"
                  [] OTHER -> "open",
     filled |-> CASE state = "closed" -> OrderAmount(o)
                  [] state = "partial" -> OrderAmount(o) \div 2
                  [] OTHER -> 0,
     average |-> IF state \in {"closed", "partial"} THEN FillPrice(o) ELSE NULL]

\* The states an order has been through, which a late or replayed update
\* may still carry.
PastStates(state) ==
    CASE state = "none"     -> {}
      [] state = "open"     -> {"open"}
      [] state = "partial"  -> {"open", "partial"}
      [] state = "closed"   -> {"open", "partial", "closed"}
      [] state = "canceled" -> {"open", "canceled"}

NextStates(state) ==
    CASE state = "none"     -> {"open", "closed"}
      [] state = "open"     -> {"partial", "closed", "canceled"}
      [] state = "partial"  -> {"closed"}
      [] OTHER              -> {}

-----------------------------------------------------------------------------
(* Leader Watcher: src/src/worker/leader-watcher.ts *)

findLeaderTrade(db, orderId) ==
    LET found == {i \in 1..Len(db.leaderTrades) :
                     db.leaderTrades[i].bybitOrderId = orderId}
    IN  IF found = {} THEN 0 ELSE CHOOSE i \in found : \A j \in found : i <= j

\* insert into leader_trades; bybit_order_id is unique, a second row with the
\* same id is refused and nothing is written.
insertLeaderTrade(db, row) ==
    IF findLeaderTrade(db, row.bybitOrderId) # 0 THEN db
    ELSE [db EXCEPT !.leaderTrades = Append(@, row)]

\* A row keyed by the order's symbol instead of its exchange order id.
NewLeaderTradeBySymbol(order, status, n) ==
    [id |-> n, bybitOrderId |-> order.symbol, symbol |-> order.symbol,
     side |-> order.side, quantity |-> order.amount,
     avgFillPrice |-> IF Truthy(order.average) THEN order.average ELSE NULL,
     filledQuantity |-> IF Truthy(order.filled) THEN order.filled ELSE 0,
     status |-> status, positionGroupId |-> <<order.symbol, n>>]

NewLeaderTrade(order, status, n) ==
    [id |-> n, bybitOrderId |-> order.id, symbol |-> order.symbol,
     side |-> order.side, quantity |-> order.amount,
     avgFillPrice |-> IF Truthy(order.average) THEN order.average ELSE NULL,
     filledQuantity |-> IF Truthy(order.filled) THEN order.filled ELSE 0,
     status |-> status, positionGroupId |-> <<order.symbol, n>>]

\* status === "closed" && order.filled && order.filled > 0 && order.average
IsFill(order) ==
    order.status = "closed" /\ Truthy(order.filled) /\ order.filled > 0
    /\ Truthy(order.average)

Bump(f, k) == [f EXCEPT ![k] = @ + 1]

\* The copier invoked first and the leader's ledger written after it.
handleFilledOrderCopierFirst(db, orderId, symbol, side, order, envs, crashAt) ==
    LET i == findLeaderTrade(db, orderId)
    IN  IF i = 0 THEN db
        ELSE
        LET leaderTrade == db.leaderTrades[i]
            called == [db EXCEPT !.copierCalls = Bump(@, orderId)]
            copied == IF side = "buy"
                      THEN copyBuy(called, leaderTrade, order.average,
                                   order.filled, envs)
                      ELSE copySell(called, leaderTrade, order.average, envs)
            logged == [copied EXCEPT !.ledgerCalls = Bump(@, orderId)]
        IN  IF crashAt = "afterLedger" THEN copied
            ELSE IF side = "buy"
            THEN openPosition(logged, LEADER, symbol, order.average,
                              order.filled, leaderTrade.positionGroupId)
            ELSE closePosition(logged, LEADER, symbol, order.average,
                               order.filled).db

\* handleFilledOrder; crashAt = "afterLedger" stops the process between the
\* leader's ledger write and the copier.
handleFilledOrder(db, orderId, symbol, side, order, envs, crashAt) ==
    LET i == findLeaderTrade(db, orderId)
    IN  IF i = 0 THEN db
        ELSE
        LET leaderTrade == db.leaderTrades[i]
            fillPrice == order.average
            fillQuantity == order.filled
            logged == [db EXCEPT !.ledgerCalls = Bump(@, orderId)]
            ledgered ==
                IF side = "buy"
                THEN openPosition(logged, LEADER, symbol, fillPrice, fillQuantity,
                                  leaderTrade.positionGroupId)
                ELSE closePosition(logged, LEADER, symbol, fillPrice,
                                   fillQuantity).db
            called == [ledgered EXCEPT !.copierCalls = Bump(@, orderId)]
        IN  IF crashAt = "afterLedger" THEN ledgered
            ELSE IF side = "buy"
            THEN copyBuy(called, leaderTrade, fillPrice, fillQuantity, envs)
            ELSE copySell(called, leaderTrade, fillPrice, envs)

\* The status taken from the update alone, whatever the row holds.
UpdatedStatusFromOrder(orderStatus, rowStatus) ==
    IF orderStatus = "closed" THEN "closed" ELSE "detected"

\* status: status === "closed" ? "closed" : leaderTrade.status
UpdatedStatus(orderStatus, rowStatus) ==
    IF orderStatus = "closed" THEN "closed" ELSE rowStatus

\* The fill test without the guard on the stored status.
JustFilledAnyRow(order, rowStatus) == IsFill(order)

\* "just got filled and wasn't processed before"
JustFilled(order, rowStatus) == rowStatus # "closed" /\ IsFill(order)

\* Whether processOrder goes on to handleFilledOrder for this order.
handlesFill(db, order) ==
    LET i == findLeaderTrade(db, order.id)
    IN  IF i = 0 THEN IsFill(order)
        ELSE JustFilled(order, db.leaderTrades[i].status)

\* processOrder; crashAt = "afterUpsert" stops the process between the
\* LeaderTrade write and handleFilledOrder.
processOrder(db0, order, envs, crashAt) ==
    LET db == [db0 EXCEPT !.observed = @ \cup {order.id}]
        i == findLeaderTrade(db, order.id)
    IN  IF i = 0
        THEN LET row == NewLeaderTrade(
                            order,
                            IF order.status = "closed" THEN "closed" ELSE "detected",
                            Len(db.leaderTrades) + 1)
                 d1 == insertLeaderTrade(db, row)
             IN  IF d1 = db THEN db
                 ELSE IF handlesFill(db, order) /\ crashAt # "afterUpsert"
                 THEN handleFilledOrder(d1, order.id, order.symbol, order.side,
                                        order, envs, crashAt)
                 ELSE d1
        ELSE LET leaderTrade == db.leaderTrades[i]
                 d1 == [db EXCEPT
                          !.leaderTrades[i] =
                             [@ EXCEPT
                                !.avgFillPrice = IF Truthy(order.average)
                                                 THEN order.average ELSE NULL,
                                !.filledQuantity = IF Truthy(order.filled)
                                                   THEN order.filled ELSE 0,
                                !.status = UpdatedStatus(order.status,
                                                         leaderTrade.status)]]
             IN  IF handlesFill(db, order) /\ crashAt # "afterUpsert"
                 THEN handleFilledOrder(d1, order.id, order.symbol, order.side,
                                        order, envs, crashAt)
                 ELSE d1

-----------------------------------------------------------------------------
(* Reconciler: src/unnamed/part_000 (worker/reconciler.ts) *)

\* fetchOpenOrders / fetchClosedOrders(since = now - 24h) as order lists.
fetchOpenOrders(exch) ==
    SelectSeq(OrderSeq, LAMBDA o : exch[o].state \in {"open", "partial"})

fetchClosedOrders(exch) ==
    SelectSeq(OrderSeq, LAMBDA o : exch[o].state = "closed" /\ exch[o].recent)

\* A recovered row stored as open whether the order is open or closed.
ReconciledStatusOpenFirst(orderStatus) ==
    CASE orderStatus \in {"open", "closed"} -> "open"
      [] OTHER                              -> "detected"

ReconciledStatus(orderStatus) ==
    CASE orderStatus = "closed" -> "closed"
      [] orderStatus = "open"   -> "open"
      [] OTHER                  -> "detected"

\* A loop body that does not look for the order's row first.
reconcileOrderUnchecked(db0, order) ==
    LET db == [db0 EXCEPT !.observed = @ \cup {order.id}]
        row == NewLeaderTrade(order, ReconciledStatus(order.status),
                              Len(db.leaderTrades) + 1)
        d1 == [insertLeaderTrade(db, row) EXCEPT
                  !.reconciled = @ \cup {<<order.id, order.status>>}]
        d2 == [d1 EXCEPT !.ledgerCalls = Bump(@, order.id)]
    IN  IF ~IsFill(order) THEN d1
        ELSE IF order.side = "buy"
        THEN openPosition(d2, LEADER, order.symbol, order.average,
                          order.filled, row.positionGroupId)
        ELSE closePosition(d2, LEADER, order.symbol, order.average,
                           order.filled).db

\* The body of the reconcile loop for one order: insert when unseen, and for
\* a fill update the leader's ledger only.
reconcileOrder(db0, order) ==
    LET db == [db0 EXCEPT !.observed = @ \cup {order.id}]
        i == findLeaderTrade(db, order.id)
    IN  IF i # 0
        THEN db
        ELSE LET n == Len(db.leaderTrades) + 1
                 row == NewLeaderTrade(order, ReconciledStatus(order.status), n)
                 d1 == [insertLeaderTrade(db, row) EXCEPT
                           !.reconciled = @ \cup {<<order.id, order.status>>}]
                 d2 == [d1 EXCEPT !.ledgerCalls = Bump(@, order.id)]
             IN  IF ~IsFill(order) THEN d1
                 ELSE IF order.side = "buy"
                 THEN openPosition(d2, LEADER, order.symbol, order.average,
                                   order.filled, row.positionGroupId)
                 ELSE closePosition(d2, LEADER, order.symbol, order.average,
                                    order.filled).db

RECURSIVE reconcileLoop(_, _, _)
reconcileLoop(db, exch, allOrders) ==
    IF allOrders = <<>> THEN db
    ELSE reconcileLoop(
            reconcileOrder(db, OrderPayload(Head(allOrders),
                                            exch[Head(allOrders)].state)),
            exch, Tail(allOrders))

\* reconcile(leader): openFails makes fetchOpenOrders throw (the pass ends in
\* the outer catch), closedFails makes fetchClosedOrders throw (caught, the
\* closed list stays empty).
reconcile(db, exch, openFails, closedFails) ==
    IF openFails THEN db
    ELSE reconcileLoop(db, exch,
            fetchOpenOrders(exch)
            \o (IF closedFails THEN <<>> ELSE fetchClosedOrders(exch)))

-----------------------------------------------------------------------------
(* What the exchange and the store do to one follower's processing *)

NoRetry == <<"ok", "ok", "ok">>

Env(balanceError, free, attempts, average, filled, fault, pickNewest) ==
    [balanceError |-> balanceError, free |-> free, attempts |-> attempts,
     average |-> average, filled |-> filled, fault |-> fault,
     pickNewest |-> pickNewest]

\* Environments of the worker runs: a fill at the leader's price, a balance
\* below the floor, rejected credentials, a ledger write that fails.
IdleEnv == Env(NoError, 2000, NoRetry, NULL, 0, "none", FALSE)

StreamEnvs ==
    { IdleEnv,
      Env(NoError, 5, NoRetry, NULL, 0, "none", FALSE),
      Env(NoError, 2000, <<"Invalid API key", "ok", "ok">>, NULL, 0, "none", FALSE),
      Env(NoError, 2000, NoRetry, NULL, 0, "position", FALSE) }

StoreBecomes(db) ==
    /\ leaderTrades' = db.leaderTrades
    /\ followerTrades' = db.followerTrades
    /\ positions' = db.positions
    /\ fees' = db.fees
    /\ users' = db.users
    /\ placedOrders' = db.placedOrders
    /\ observed' = db.observed
    /\ copierCalls' = db.copierCalls
    /\ ledgerCalls' = db.ledgerCalls
    /\ reconciled' = db.reconciled
    /\ processed' = db.processed
    /\ sizings' = db.sizings
    /\ handles' = db.handles

storeVars == <<leaderTrades, followerTrades, positions, fees, users,
               placedOrders, observed, copierCalls, ledgerCalls, reconciled,
               processed, sizings, handles>>

NoCall == [op |-> "none"]

Snapshot(daysActive, startEquity, endEquity, netDeposits, netWithdrawals) ==
    [daysActive |-> daysActive, startEquity |-> startEquity,
     endEquity |-> endEquity, netDeposits |-> netDeposits,
     netWithdrawals |-> netWithdrawals]

\* No invoice yet, no generation recorded.
NoInvoicing ==
    /\ invoices = <<>>
    /\ systemConfig = {}
    /\ snapshots = [f \in Followers |-> Snapshot(0, 0, 0, 0, 0)]
    /\ today = [year |-> 2026, month |-> 1, day |-> 1]

RECONNECT_DELAY == 5000
MAX_RECONNECT_DELAY == 60000

\* A LeaderWatcher as constructed: running, exchange (is this.exchange set) and
\* reconnectDelay are its fields; pc is where start() stands and stop where
\* stop() stands.  The other fields record the run: failures is the number of
\* consecutive failures since the subscription last delivered a batch,
\* sleeping the wait of the current backoff sleep, stopAt the pc at which
\* stop() was called, watchAfterStop and clientAfterStop whether watchOrders
\* was called, or a client created, after that, closeCalled whether close()
\* was called on the client this.exchange refers to, and unclosed the number
\* of clients created on which close() was never called.
NewWatcher ==
    [pc |-> "idle", running |-> FALSE, exchange |-> FALSE,
     reconnectDelay |-> RECONNECT_DELAY, stop |-> "no", failures |-> 0,
     sleeping |-> 0, stopAt |-> "none", watchAfterStop |-> FALSE,
     clientAfterStop |-> FALSE, closeCalled |-> FALSE, unclosed |-> 0]

\* No BalanceSnapshotJob.run in flight: inFlight holds the runs between two
\* of their awaits, marker the system_config values of key
\* last_balance_snapshot, fetched the balance fetchUsdtBalance last returned
\* for each follower.
NoRuns ==
    [inFlight |-> {}, marker |-> {}, fetched |-> [f \in Followers |-> NULL]]

\* The scheduler's timer armed, no tick yet: ticks counts the ticks, last is
\* what the last tick did with each job, alive whether the timer still fires.
NewScheduler == [alive |-> TRUE, ticks |-> 0, last |-> <<>>]

\* The watcher not started, no pending trade, no snapshot run, no tick.
NoServices ==
    /\ watcher = NewWatcher
    /\ pendingTrades = <<>>
    /\ requests = {}
    /\ balanceSnapshots = <<>>
    /\ snapshotRuns = NoRuns
    /\ clock = 0
    /\ scheduler = NewScheduler
    /\ notifications = <<>>
    /\ scheduler = NewScheduler
    /\ notifications = <<>>

-----------------------------------------------------------------------------
(* The worker: reconcile at start, then stream (src/src/worker/main.ts) *)

InitUsers ==
    [f \in Followers |->
        IF f = "f1"
        THEN [copyingEnabled |-> TRUE, copyRatioPercent |-> 10, maxTradeUsd |-> NULL]
        ELSE [copyingEnabled |-> TRUE, copyRatioPercent |-> NULL, maxTradeUsd |-> 100]]

Init ==
    /\ leaderTrades = <<>>
    /\ followerTrades = <<>>
    /\ positions = <<>>
    /\ fees = <<>>
    /\ users = InitUsers
    /\ placedOrders = <<>>
    /\ exchangeOrders = [o \in Orders |-> [state |-> "none", recent |-> TRUE]]
    /\ phase = "down"
    /\ observed = {}
    /\ copierCalls = [o \in Orders |-> 0]
    /\ ledgerCalls = [o \in Orders |-> 0]
    /\ reconciled = {}
    /\ processed = {}
    /\ sizings = {}
    /\ handles = {}
    /\ lastCall = NoCall
    /\ NoInvoicing
    /\ NoServices

\* The leader's order moves on at the exchange.
ExchangeStep(o, s) ==
    /\ s \in NextStates(exchangeOrders[o].state)
    /\ exchangeOrders' = [exchangeOrders EXCEPT ![o].state = s]
    /\ UNCHANGED <<storeVars, phase, lastCall, invoiceVars, serviceVars>>

\* A closed order leaves the Reconciler's 24 hour window.
Age(o) ==
    /\ exchangeOrders[o].state = "closed"
    /\ exchangeOrders[o].recent
    /\ exchangeOrders' = [exchangeOrders EXCEPT ![o].recent = FALSE]
    /\ UNCHANGED <<storeVars, phase, lastCall, invoiceVars, serviceVars>>

\* Worker.start: reconcile, then the watcher streams.
WorkerStart(openFails, closedFails) ==
    /\ phase = "down"
    /\ StoreBecomes(reconcile(Store, exchangeOrders, openFails, closedFails))
    /\ phase' = "streaming"
    /\ UNCHANGED <<exchangeOrders, lastCall, invoiceVars, serviceVars>>

CrashPoints == {"none", "afterUpsert", "afterLedger"}

\* watchLoop: one order of a batch goes through processOrder.  The copier's
\* environment and the crash points matter only when the order is handled as
\* a fill.
StreamOrder(o, state) ==
    /\ phase = "streaming"
    /\ state \in PastStates(exchangeOrders[o].state)
    /\ LET order == OrderPayload(o, state)
           fill == handlesFill(Store, order)
       IN  \E envs \in (IF fill THEN [Followers -> StreamEnvs]
                         ELSE {[f \in Followers |-> IdleEnv]}),
              crashAt \in (IF fill THEN CrashPoints ELSE {"none"}) :
              /\ StoreBecomes(processOrder(Store, order, envs, crashAt))
              /\ phase' = IF crashAt = "none" THEN "streaming" ELSE "down"
    /\ UNCHANGED <<exchangeOrders, lastCall, invoiceVars, serviceVars>>

\* The process dies between two handlers.
Crash ==
    /\ phase = "streaming"
    /\ phase' = "down"
    /\ UNCHANGED <<storeVars, exchangeOrders, lastCall, invoiceVars, serviceVars>>

Next ==
    \/ \E o \in Orders, s \in {"open", "partial", "closed", "canceled"} :
          ExchangeStep(o, s)
    \/ \E o \in Orders : Age(o)
    \/ \E openFails \in BOOLEAN, closedFails \in BOOLEAN :
          WorkerStart(openFails, closedFails)
    \/ \E o \in Orders, state \in {"open", "partial", "closed", "canceled"} :
          StreamOrder(o, state)
    \/ Crash

Spec == Init /\ [][Next]_vars

-----------------------------------------------------------------------------
(* Properties of the worker (Spec) *)

LeaderTradeRows(o) ==
    {i \in 1..Len(leaderTrades) : leaderTrades[i].bybitOrderId = o}

FollowerTradeRows(leaderTradeId, f) ==
    {i \in 1..Len(followerTrades) :
        /\ followerTrades[i].leaderTradeId = leaderTradeId
        /\ followerTrades[i].followerId = f}

\* A closed row whose filled quantity a late update has lowered: the order was
\* seen again after it had been recorded closed.
SeenAgainAfterClose(o) ==
    \E i \in LeaderTradeRows(o) :
        /\ leaderTrades[i].status = "closed"
        /\ leaderTrades[i].filledQuantity < OrderAmount(o)

\* C1: whatever the stream delivers (duplicates, replays, late updates) and
\* whatever the Reconciler does at a restart, copyBuy/copySell is invoked at
\* most once per exchange order id.
C1_NoTradeCopiedTwice == \A o \in Orders : copierCalls[o] <= 1

C1_Witness ==
    \E o \in Orders : copierCalls[o] = 1 /\ SeenAgainAfterClose(o)

\* C2: every order id handed to processOrder or to the reconcile loop has
\* exactly one leader_trades row.
C2_OneRowPerOrderId ==
    \A o \in observed : Cardinality(LeaderTradeRows(o)) = 1

C2_Witness ==
    /\ observed = Orders
    /\ reconciled # {}
    /\ \E o \in Orders : SeenAgainAfterClose(o)

\* C3: a restart whose polls succeed leaves every leader order that is closed
\* with a fill within the window recorded as a closed LeaderTrade and applied
\* exactly once to the leader's ledger, whether or not its row existed before.
C3_NoFillLostAcrossRestart ==
    [][WorkerStart(FALSE, FALSE) =>
         \A o \in Orders :
            (exchangeOrders[o].state = "closed" /\ exchangeOrders[o].recent) =>
               /\ \E i \in 1..Len(leaderTrades') :
                     /\ leaderTrades'[i].bybitOrderId = o
                     /\ leaderTrades'[i].status = "closed"
               /\ ledgerCalls'[o] = 1]_vars

\* C4, as stated: no order whose row the Reconciler inserted ever reaches the
\* copier, a later stream update included.
C4_ReconciledNeverCopied ==
    \A r \in reconciled : copierCalls[r[1]] = 0

NoFollowerEffect(o) ==
    \A i \in LeaderTradeRows(o) :
        /\ \A f \in Followers : FollowerTradeRows(i, f) = {}
        /\ \A k \in 1..Len(placedOrders) : placedOrders[k].leaderTradeId # i

\* C4, amended: an order the Reconciler discovers already closed is applied
\* once to the leader's ledger, gets no FollowerTrade row and no follower
\* order, and no later stream update for it reaches the copier.
C4_ReconciledClosedNeverCopied ==
    \A r \in reconciled :
        r[2] = "closed" =>
            /\ copierCalls[r[1]] = 0
            /\ ledgerCalls[r[1]] = 1
            /\ NoFollowerEffect(r[1])

C4_Witness ==
    \E r \in reconciled :
        /\ r[2] = "closed"
        /\ SeenAgainAfterClose(r[1])
        /\ \E i \in 1..Len(positions) : positions[i].userId = LEADER

\* C5: for every follower a propagation call processed there is exactly one
\* FollowerTrade row for that (LeaderTrade, follower) pair.
C5_OneFollowerTradePerPair ==
    \A pr \in processed : Cardinality(FollowerTradeRows(pr[1], pr[2])) = 1

StatusRank(status) ==
    CASE status = "detected" -> 0
      [] status = "open"     -> 1
      [] status = "closed"   -> 2

\* C8: no step lowers the status of a LeaderTrade row in the order
\* detected, open, closed.
C8_StatusNeverRegresses ==
    [][\A i \in 1..Len(leaderTrades) :
          StatusRank(leaderTrades'[i].status) >= StatusRank(leaderTrades[i].status)]_vars

C8_Witness ==
    \E i \in 1..Len(leaderTrades) :
        /\ leaderTrades[i].status = "closed"
        /\ leaderTrades[i].filledQuantity = 0

-----------------------------------------------------------------------------
(* The Position Ledger on its own: openPosition and closePosition called   *)
(* with arbitrary arguments (SpecLedger)                                   *)

MaxPositions == 3

LedgerKeys == {<<"f1", "BTC/USDT">>, <<"f1", "ETH/USDT">>, <<LEADER, "BTC/USDT">>}
EntryPrices == {100}
EntryQuantities == {2}
\* closePosition requests <<exitPrice, exitQuantity>>: part of a lot at a
\* loss, more than a lot at a loss, more than a lot at a gain.
CloseRequests == {<<90, 1>>, <<90, 3>>, <<120, 3>>}

InitLedger ==
    /\ leaderTrades = <<>>
    /\ followerTrades = <<>>
    /\ positions = <<>>
    /\ fees = <<>>
    /\ users = InitUsers
    /\ placedOrders = <<>>
    /\ exchangeOrders = [o \in Orders |-> [state |-> "none", recent |-> TRUE]]
    /\ phase = "down"
    /\ observed = {}
    /\ copierCalls = [o \in Orders |-> 0]
    /\ ledgerCalls = [o \in Orders |-> 0]
    /\ reconciled = {}
    /\ processed = {}
    /\ sizings = {}
    /\ handles = {}
    /\ lastCall = NoCall
    /\ NoInvoicing
    /\ NoServices

nonLedgerVars == <<leaderTrades, followerTrades, fees, users, placedOrders,
                   exchangeOrders, phase, observed, copierCalls, ledgerCalls,
                   reconciled, processed, sizings, handles>>

OpenPositionCall(userId, symbol, entryPrice, entryQuantity) ==
    /\ Len(positions) < MaxPositions
    /\ positions' = openPosition(Store, userId, symbol, entryPrice,
                                 entryQuantity, NULL).positions
    /\ lastCall' = [op |-> "openPosition", quantity |-> entryQuantity,
                    found |-> TRUE, id |-> Len(positions) + 1]
    /\ UNCHANGED <<nonLedgerVars, invoiceVars, serviceVars>>

ClosePositionCall(userId, symbol, exitPrice, exitQuantity) ==
    LET closed == closePosition(Store, userId, symbol, exitPrice, exitQuantity)
    IN  /\ positions' = closed.db.positions
        /\ lastCall' = [op |-> "closePosition", quantity |-> exitQuantity,
                        found |-> closed.found, id |-> closed.id]
        /\ UNCHANGED <<nonLedgerVars, invoiceVars, serviceVars>>

NextLedger ==
    \/ \E k \in LedgerKeys, p \in EntryPrices, q \in EntryQuantities :
          OpenPositionCall(k[1], k[2], p, q)
    \/ \E k \in LedgerKeys, r \in CloseRequests :
          ClosePositionCall(k[1], k[2], r[1], r[2])

SpecLedger == InitLedger /\ [][NextLedger]_vars

OpenLots(userId, symbol) ==
    {i \in 1..Len(positions) : /\ positions[i].userId = userId
                               /\ positions[i].symbol = symbol
                               /\ positions[i].status = "open"}

\* C7: closePosition closes exactly one row, the open one of that user and
\* symbol with the smallest createdAt, changes no other row, and with no open
\* row returns null and writes nothing.
C7_FifoClose ==
    [][\A k \in LedgerKeys, r \in CloseRequests :
          ClosePositionCall(k[1], k[2], r[1], r[2]) =>
             LET open == OpenLots(k[1], k[2])
             IN  /\ Len(positions') = Len(positions)
                 /\ open = {} => (positions' = positions /\ ~lastCall'.found)
                 /\ open # {} =>
                      \E i \in open :
                         /\ \A j \in open :
                               positions[i].createdAt <= positions[j].createdAt
                         /\ lastCall'.found /\ lastCall'.id = i
                         /\ positions'[i].status = "closed"
                         /\ \A j \in 1..Len(positions) :
                               j # i => positions'[j] = positions[j]]_vars

\* A close that left a younger lot of the same user and symbol open.
C7_Witness ==
    /\ lastCall.op = "closePosition"
    /\ lastCall.found
    /\ \E j \in 1..Len(positions) :
          /\ j > lastCall.id
          /\ positions[j].userId = positions[lastCall.id].userId
          /\ positions[j].symbol = positions[lastCall.id].symbol
          /\ positions[j].status = "open"

\* C9: a closed row has exitQuantity = min(requested, entryQuantity), so at
\* most entryQuantity, and realizedPnl = (exitPrice - entryPrice) *
\* exitQuantity; a close changes at most the one row it closes, whatever the
\* requested quantity.
C9_CloseAtMostEntryQuantity ==
    /\ [](\A i \in 1..Len(positions) :
             positions[i].status = "closed" =>
                /\ positions[i].exitQuantity <= positions[i].entryQuantity
                /\ positions[i].realizedPnl =
                      (positions[i].exitPrice - positions[i].entryPrice)
                      * positions[i].exitQuantity)
    /\ [][\A k \in LedgerKeys, r \in CloseRequests :
             ClosePositionCall(k[1], k[2], r[1], r[2]) =>
                /\ Cardinality({j \in 1..Len(positions) :
                                   positions'[j] # positions[j]}) <= 1
                /\ \A j \in 1..Len(positions) :
                      positions'[j] # positions[j] =>
                         /\ positions'[j].exitPrice = r[1]
                         /\ positions'[j].exitQuantity =
                               (IF r[2] <= positions[j].entryQuantity THEN r[2]
                                ELSE positions[j].entryQuantity)
                         /\ positions'[j].entryQuantity = positions[j].entryQuantity
                         /\ positions'[j].entryPrice = positions[j].entryPrice]_vars

\* A close asked for more than the oldest lot holds while a second lot of the
\* same user and symbol stays open.
C9_Witness ==
    /\ C7_Witness
    /\ lastCall.quantity > positions[lastCall.id].entryQuantity
    /\ positions[lastCall.id].exitQuantity = positions[lastCall.id].entryQuantity

-----------------------------------------------------------------------------
(* The Trade Copier on its own: one buy fill and one sell fill of the       *)
(* leader, each propagated once, for followers with any settings the        *)
(* settings route accepts (SpecCopier)                                      *)

\* copy_ratio_percent is unset or within 1..100; max_trade_usd is unset or a
\* non-negative amount.
CopierUsers ==
    { [f \in Followers |->
          IF f = "f1"
          THEN [copyingEnabled |-> TRUE, copyRatioPercent |-> r, maxTradeUsd |-> NULL]
          ELSE [copyingEnabled |-> e, copyRatioPercent |-> 10, maxTradeUsd |-> m]] :
      r \in {NULL, 1, 10}, m \in {NULL, 0, 100}, e \in BOOLEAN }

\* Free balances around the $1 floor, a rate-limited and a rejected order, a
\* balance fetch that times out; every store write succeeds.
CopierEnvs ==
    { Env(NoError, 0, NoRetry, NULL, 0, "none", FALSE),
      Env(NoError, 9, NoRetry, NULL, 0, "none", FALSE),
      Env(NoError, 10, NoRetry, NULL, 0, "none", FALSE),
      Env(NoError, 2000, NoRetry, NULL, 0, "none", FALSE),
      Env(NoError, 2000, <<"429 rate limit", "ok", "ok">>, NULL, 0, "none", TRUE),
      Env(NoError, 99, <<"Insufficient funds", "ok", "ok">>, NULL, 0, "none", FALSE),
      Env("request timeout", 0, NoRetry, NULL, 0, "none", FALSE) }

InitCopier ==
    /\ leaderTrades = <<NewLeaderTrade(OrderPayload("o1", "closed"), "closed", 1),
                        NewLeaderTrade(OrderPayload("o2", "closed"), "closed", 2)>>
    /\ followerTrades = <<>>
    /\ positions = <<>>
    /\ fees = <<>>
    /\ users \in CopierUsers
    /\ placedOrders = <<>>
    /\ exchangeOrders = [o \in Orders |-> [state |-> "closed", recent |-> TRUE]]
    /\ phase = "streaming"
    /\ observed = Orders
    /\ copierCalls = [o \in Orders |-> 0]
    /\ ledgerCalls = [o \in Orders |-> 0]
    /\ reconciled = {}
    /\ processed = {}
    /\ sizings = {}
    /\ handles = {}
    /\ lastCall = NoCall
    /\ NoInvoicing
    /\ NoServices

CopyBuyCall(envs) ==
    /\ copierCalls["o1"] = 0
    /\ StoreBecomes(copyBuy([Store EXCEPT !.copierCalls = Bump(@, "o1")],
                            leaderTrades[1], FillPrice("o1"), OrderAmount("o1"),
                            envs))
    /\ UNCHANGED <<exchangeOrders, phase, lastCall, invoiceVars, serviceVars>>

CopySellCall(envs) ==
    /\ copierCalls["o2"] = 0
    /\ StoreBecomes(copySell([Store EXCEPT !.copierCalls = Bump(@, "o2")],
                             leaderTrades[2], FillPrice("o2"), envs))
    /\ UNCHANGED <<exchangeOrders, phase, lastCall, invoiceVars, serviceVars>>

NextCopier ==
    \/ \E envs \in [Followers -> CopierEnvs] : CopyBuyCall(envs)
    \/ \E envs \in [Followers -> CopierEnvs] : CopySellCall(envs)

SpecCopier == InitCopier /\ [][NextCopier]_vars

\* min(free balance x ratio%, maxTradeUsd) in cents, the ratio 10% when unset
SizedCents(z) ==
    LET r == IF z.copyRatioPercent = NULL THEN 10 ELSE z.copyRatioPercent
        t == z.free * r
    IN  IF z.maxTradeUsd # NULL /\ z.maxTradeUsd * 100 < t
        THEN z.maxTradeUsd * 100 ELSE t

\* C10: a follower whose min(free balance x ratio%, maxTradeUsd) was below $1
\* in a buy propagation has one FollowerTrade for that LeaderTrade, with
\* status skipped, no order placed for it and no Position.
C10_SkipBelowFloor ==
    \A z \in sizings :
        SizedCents(z) < 100 =>
            /\ \E i \in FollowerTradeRows(z.leaderTradeId, z.followerId) :
                  /\ followerTrades[i].status = "skipped"
                  /\ followerTrades[i].side = "buy"
            /\ \A k \in 1..Len(placedOrders) :
                  ~(/\ placedOrders[k].followerId = z.followerId
                    /\ placedOrders[k].leaderTradeId = z.leaderTradeId)
            /\ \A k \in 1..Len(positions) : positions[k].userId # z.followerId

\* One follower 10 cents under the floor is skipped while the other, exactly
\* at the floor, gets its order.
C10_Witness ==
    \E z \in sizings :
        /\ SizedCents(z) = 90
        /\ \E i \in FollowerTradeRows(z.leaderTradeId, z.followerId) :
              followerTrades[i].status = "skipped"
        /\ \E y \in sizings :
              /\ SizedCents(y) = 100
              /\ \E k \in 1..Len(placedOrders) :
                    placedOrders[k].followerId = y.followerId

-----------------------------------------------------------------------------
(* The Invoice Generator under the scheduler tick and the admin route       *)
(* (SpecInvoice)                                                            *)

MaxInvoices == 3

\* The dates the clock runs through: mid March to mid July 2026.
Years == {2026}
Months == 3..7

InvoiceEnvs ==
    { [fault |-> "none", emailSent |-> TRUE],
      [fault |-> "none", emailSent |-> FALSE],
      [fault |-> "invoice", emailSent |-> FALSE],
      [fault |-> "notification", emailSent |-> TRUE] }

\* f1 was active all quarter, with no profit or a Silver profit; f2 was
\* active with a loss, or has no snapshot in the quarter.
InvoiceSnapshots ==
    { [f \in Followers |-> IF f = "f1" THEN a ELSE b] :
        a \in {Snapshot(90, 1000, 1000, 0, 0), Snapshot(90, 1000, 5000, 1000, 0)},
        b \in {Snapshot(30, 1000, 900, 0, 0), Snapshot(0, 0, 0, 0, 0)} }

InitInvoice ==
    /\ leaderTrades = <<>>
    /\ followerTrades = <<>>
    /\ positions = <<>>
    /\ fees = <<>>
    /\ users = InitUsers
    /\ placedOrders = <<>>
    /\ exchangeOrders = [o \in Orders |-> [state |-> "none", recent |-> TRUE]]
    /\ phase = "streaming"
    /\ observed = {}
    /\ copierCalls = [o \in Orders |-> 0]
    /\ ledgerCalls = [o \in Orders |-> 0]
    /\ reconciled = {}
    /\ processed = {}
    /\ sizings = {}
    /\ handles = {}
    /\ lastCall = NoCall
    /\ invoices = <<>>
    /\ systemConfig = {}
    /\ snapshots \in InvoiceSnapshots
    /\ NoServices
    /\ today = [year |-> 2026, month |-> 3, day |-> 15]

workerVars == <<storeVars, exchangeOrders, phase, lastCall>>

\* runScheduledJobs, the invoice job: if shouldRun() then run().
SchedulerTick(envs, markerFails) ==
    /\ shouldRun(today, systemConfig)
    /\ Len(invoices) < MaxInvoices
    /\ LET done == run(invoices, systemConfig, getPreviousQuarter(today),
                       snapshots, envs, markerFails)
       IN  /\ invoices' = done.invoices
           /\ systemConfig' = done.systemConfig
    /\ UNCHANGED <<serviceVars, workerVars, snapshots, today>>

\* POST /api/admin/invoices/generate by the leader: run(getPreviousQuarter()).
AdminGenerate(envs, markerFails) ==
    /\ Len(invoices) < MaxInvoices
    /\ LET done == run(invoices, systemConfig, getPreviousQuarter(today),
                       snapshots, envs, markerFails)
       IN  /\ invoices' = done.invoices
           /\ systemConfig' = done.systemConfig
    /\ UNCHANGED <<serviceVars, workerVars, snapshots, today>>

\* Time passes: the 1st becomes the 15th, the 15th the 1st of the next month.
NextDate(d) ==
    IF d.day = 1 THEN [d EXCEPT !.day = 15]
    ELSE IF d.month < 12 THEN [d EXCEPT !.day = 1, !.month = @ + 1]
    ELSE [year |-> d.year + 1, month |-> 1, day |-> 1]

DayPasses ==
    /\ NextDate(today).year \in Years
    /\ NextDate(today).month \in Months
    /\ today' = NextDate(today)
    /\ UNCHANGED <<serviceVars, workerVars, invoices, systemConfig, snapshots>>

NextInvoice ==
    \/ \E envs \in [Followers -> InvoiceEnvs], markerFails \in BOOLEAN :
          SchedulerTick(envs, markerFails)
    \/ \E envs \in [Followers -> InvoiceEnvs], markerFails \in BOOLEAN :
          AdminGenerate(envs, markerFails)
    \/ DayPasses

SpecInvoice == InitInvoice /\ [][NextInvoice]_vars

InvoiceRows(f, label) ==
    {i \in 1..Len(invoices) :
        invoices[i].followerId = f /\ invoices[i].quarterLabel = label}

\* C6: however often the generator runs for a quarter (scheduler tick, admin
\* trigger, re-run after a partial failure), there is never more than one
\* Invoice row for a (follower, quarter).
C6_OneInvoicePerFollowerQuarter ==
    \A i \in 1..Len(invoices) :
        Cardinality(InvoiceRows(invoices[i].followerId,
                                invoices[i].quarterLabel)) = 1

-----------------------------------------------------------------------------
(* Order placement under retryOrder: one follower's buy and sell with any   *)
(* sequence of exchange answers (SpecRetry)                                 *)

\* What the exchange answers to the first, second, third and (if it were
\* asked) fourth placement of one order.
RetryOutcomes ==
    { <<a, b, c, d>> : a \in {"ok"} \cup ExchangeErrors,
                       b \in {"ok"} \cup ExchangeErrors,
                       c \in {"ok"} \cup ExchangeErrors,
                       d \in {"ok", "429 rate limit"} }

InitRetry ==
    /\ leaderTrades = <<NewLeaderTrade(OrderPayload("o1", "closed"), "closed", 1),
                        NewLeaderTrade(OrderPayload("o2", "closed"), "closed", 2)>>
    /\ followerTrades = <<>>
    /\ positions = <<>>
    /\ fees = <<>>
    /\ users = InitUsers
    /\ placedOrders = <<>>
    /\ exchangeOrders = [o \in Orders |-> [state |-> "closed", recent |-> TRUE]]
    /\ phase = "streaming"
    /\ observed = Orders
    /\ copierCalls = [o \in Orders |-> 0]
    /\ ledgerCalls = [o \in Orders |-> 0]
    /\ reconciled = {}
    /\ processed = {}
    /\ sizings = {}
    /\ handles = {}
    /\ lastCall = NoCall
    /\ NoInvoicing
    /\ NoServices

RetryCall(f, leaderTradeId, side, outcomes) ==
    [op |-> "retryOrder", followerId |-> f, leaderTradeId |-> leaderTradeId,
     side |-> side, outcomes |-> outcomes, result |-> retryOrder(outcomes)]

\* executeBuyForFollower for the leader's buy, the exchange answering the
\* placements with outcomes.
BuyWithOutcomes(f, outcomes) ==
    /\ <<1, f>> \notin processed
    /\ StoreBecomes(executeBuyForFollower(Store, f, leaderTrades[1], FillPrice("o1"),
                        Env(NoError, 2000, outcomes, NULL, 0, "none", FALSE)))
    /\ lastCall' = RetryCall(f, 1, "buy", outcomes)
    /\ UNCHANGED <<exchangeOrders, phase, invoiceVars, serviceVars>>

\* executeSellForFollower for the leader's sell, for a follower holding a lot.
SellWithOutcomes(f, outcomes) ==
    /\ <<2, f>> \notin processed
    /\ OldestOpen(positions, f, OrderSymbol("o2")) # 0
    /\ StoreBecomes(executeSellForFollower(Store, f, leaderTrades[2], FillPrice("o2"),
                        Env(NoError, 2000, outcomes, NULL, 0, "none", FALSE)))
    /\ lastCall' = RetryCall(f, 2, "sell", outcomes)
    /\ UNCHANGED <<exchangeOrders, phase, invoiceVars, serviceVars>>

NextRetry ==
    \/ \E outcomes \in RetryOutcomes : BuyWithOutcomes("f1", outcomes)
    \/ \E outcomes \in RetryOutcomes : SellWithOutcomes("f1", outcomes)

SpecRetry == InitRetry /\ [][NextRetry]_vars

Retryable(msg) == msg \in {"429 rate limit", "request timeout"}

\* The rows and orders of the call lastCall describes.
CallRows ==
    {i \in FollowerTradeRows(lastCall.leaderTradeId, lastCall.followerId) :
        followerTrades[i].side = lastCall.side}

CallOrders ==
    {k \in 1..Len(placedOrders) :
        /\ placedOrders[k].followerId = lastCall.followerId
        /\ placedOrders[k].leaderTradeId = lastCall.leaderTradeId}

BackoffDelays == <<1000, 2000, 4000>>

\* C11: while the placements fail with retryable errors the order is tried
\* again, at most 3 times in all, after waits of 1s, 2s, 4s; the first
\* accepted placement ends the retrying; three retryable failures surface the
\* third error and leave one failed FollowerTrade carrying it.
C11_BoundedRetry ==
    lastCall.op = "retryOrder" =>
        LET o == lastCall.outcomes
            r == lastCall.result
        IN  /\ r.attempts <= 3
            /\ r.delays = SubSeq(BackoffDelays, 1, Len(r.delays))
            /\ \A k \in 1..3 :
                  ((\A j \in 1..(k - 1) : Retryable(o[j])) /\ o[k] = "ok") =>
                      /\ r.ok /\ r.attempts = k /\ Len(r.delays) = k - 1
                      /\ Cardinality(CallOrders) = 1
                      /\ \A i \in CallRows : followerTrades[i].status = "filled"
            /\ (\A j \in 1..3 : Retryable(o[j])) =>
                  /\ ~r.ok /\ r.attempts = 3 /\ r.error = o[3]
                  /\ r.delays = BackoffDelays
                  /\ CallOrders = {}
                  /\ Cardinality(CallRows) = 1
                  /\ \A i \in CallRows :
                        /\ followerTrades[i].status = "failed"
                        /\ followerTrades[i].errorMessage = o[3]

\* Three retryable failures in a row although a fourth placement would have
\* been accepted.
C11_Witness ==
    /\ lastCall.op = "retryOrder"
    /\ \A j \in 1..3 : Retryable(lastCall.outcomes[j])
    /\ lastCall.outcomes[4] = "ok"
    /\ lastCall.outcomes[1] # lastCall.outcomes[3]
    /\ \E i \in CallRows : followerTrades[i].status = "failed"

\* C12: a placement that fails with an error that is neither a rate limit
\* nor a network error is not tried again: on the first placement the order
\* is attempted exactly once, nothing is waited for, and the follower's
\* trade is recorded failed with that error's text.
C12_NonRetryableNotRetried ==
    lastCall.op = "retryOrder" =>
        LET o == lastCall.outcomes
            r == lastCall.result
        IN  \A k \in 1..3 :
               (/\ \A j \in 1..(k - 1) : Retryable(o[j])
                /\ o[k] # "ok" /\ ~Retryable(o[k])) =>
                   /\ ~r.ok /\ r.attempts = k /\ r.error = o[k]
                   /\ Len(r.delays) = k - 1
                   /\ CallOrders = {}
                   /\ Cardinality(CallRows) = 1
                   /\ \A i \in CallRows :
                         /\ followerTrades[i].status = "failed"
                         /\ followerTrades[i].errorMessage = o[k]

\* A business error on the first placement of a buy that a second placement
\* would have got through.
C12_Witness ==
    /\ lastCall.op = "retryOrder"
    /\ lastCall.outcomes[1] = "Insufficient funds"
    /\ lastCall.outcomes[2] = "ok"
    /\ lastCall.result.attempts = 1
    /\ \E i \in CallRows : followerTrades[i].errorMessage = "Insufficient funds"

-----------------------------------------------------------------------------
(* The quarter fee as a function of the equity figures (SpecFee)            *)

\* Equity figures putting the profit on, just under and just over every
\* bracket bound, and at or under zero.
FeeEndEquities ==
    {500, 999, 1000, 1001, 3499, 3500, 3501, 10999, 11000, 11001,
     25999, 26000, 26001, 50999, 51000, 51001, 900000}

FeeSnapshots ==
    { [f \in Followers |-> IF f = "f1" THEN Snapshot(90, 1000, e, d, w)
                           ELSE Snapshot(90, 0, g, 0, 0)] :
        e \in FeeEndEquities, d \in {0, 1}, w \in {0, 1}, g \in {0, 2500} }

InitFee ==
    /\ leaderTrades = <<>>
    /\ followerTrades = <<>>
    /\ positions = <<>>
    /\ fees = <<>>
    /\ users = InitUsers
    /\ placedOrders = <<>>
    /\ exchangeOrders = [o \in Orders |-> [state |-> "none", recent |-> TRUE]]
    /\ phase = "streaming"
    /\ observed = {}
    /\ copierCalls = [o \in Orders |-> 0]
    /\ ledgerCalls = [o \in Orders |-> 0]
    /\ reconciled = {}
    /\ processed = {}
    /\ sizings = {}
    /\ handles = {}
    /\ lastCall = NoCall
    /\ invoices = <<>>
    /\ systemConfig = {}
    /\ snapshots \in FeeSnapshots
    /\ NoServices
    /\ today = [year |-> 2026, month |-> 4, day |-> 1]

\* calculateQuarterProfit then calculateTotalFee for one follower's figures.
ComputeQuarterFee(f) ==
    /\ LET profit == calculateQuarterProfit(snapshots[f].startEquity,
                                            snapshots[f].endEquity,
                                            snapshots[f].netDeposits,
                                            snapshots[f].netWithdrawals)
       IN  lastCall' = [op |-> "calculateTotalFee", followerId |-> f,
                        profit |-> profit, fee |-> calculateTotalFee(profit)]
    /\ UNCHANGED <<storeVars, exchangeOrders, phase, invoiceVars, serviceVars>>

NextFee == \E f \in Followers : ComputeQuarterFee(f)

SpecFee == InitFee /\ [][NextFee]_vars

BracketsHolding(profit) ==
    {i \in 1..Len(FEE_BRACKETS) :
        FEE_BRACKETS[i].minProfit <= profit /\ profit < FEE_BRACKETS[i].maxProfit}

\* C13: the quarter fee is baseFee + bracketFee with the base fee always
\* charged; the profit is endEquity - startEquity - netDeposits +
\* netWithdrawals; a positive profit lies in exactly one bracket
\* (lower bound inclusive, upper exclusive) and pays that bracket's fee; a
\* profit of zero or less pays no bracket fee.
C13_FeeBracketSelection ==
    lastCall.op = "calculateTotalFee" =>
        LET s == snapshots[lastCall.followerId]
            profit == lastCall.profit
            fee == lastCall.fee
        IN  /\ profit = s.endEquity - s.startEquity - s.netDeposits + s.netWithdrawals
            /\ fee.baseFee = 297
            /\ fee.totalFee = fee.baseFee + fee.bracketFee
            /\ profit <= 0 => fee.bracketFee = 0
            /\ profit > 0 =>
                  /\ Cardinality(BracketsHolding(profit)) = 1
                  /\ \A i \in BracketsHolding(profit) :
                        /\ fee.bracketFee = FEE_BRACKETS[i].fee
                        /\ fee.bracketLabel = FEE_BRACKETS[i].label
            /\ profit = 2500 => fee.totalFee = 297 + 197
            /\ profit = 2499 => fee.totalFee = 297

\* A profit exactly on the Gold lower bound, reached through a deposit and a
\* withdrawal that cancel.
C13_Witness ==
    /\ lastCall.op = "calculateTotalFee"
    /\ lastCall.profit = 10000
    /\ snapshots[lastCall.followerId].netDeposits = 1
    /\ lastCall.fee.bracketLabel = "Gold"
    /\ lastCall.fee.totalFee = 794

-----------------------------------------------------------------------------
(* One propagation call over the followers when orders and store writes     *)
(* fail for some of them (SpecBatch)                                        *)

\* A clean fill, rejected credentials, a balance fetch that times out, a
\* position write that throws, and a store that refuses every write of the
\* follower's processing (so that the catch block throws too), with the
\* order rejected or accepted.
BatchEnvs ==
    { IdleEnv,
      Env(NoError, 2000, <<"Invalid API key", "ok", "ok">>, NULL, 0, "none", TRUE),
      Env("request timeout", 0, NoRetry, NULL, 0, "none", FALSE),
      Env(NoError, 2000, NoRetry, NULL, 0, "position", FALSE),
      Env(NoError, 2000, <<"Insufficient funds", "ok", "ok">>, NULL, 0, "down", FALSE),
      Env(NoError, 2000, NoRetry, NULL, 0, "down", FALSE) }

NextBatch ==
    \/ \E envs \in [Followers -> BatchEnvs] : CopyBuyCall(envs)
    \/ \E envs \in [Followers -> BatchEnvs] : CopySellCall(envs)

SpecBatch == InitCopier /\ [][NextBatch]_vars

\* What the store and the exchange hold for one follower, row ids and
\* creation times left out.
FollowerView(db, f) ==
    [trades |-> [i \in DOMAIN SelectSeq(db.followerTrades,
                                        LAMBDA r : r.followerId = f) |->
                    [SelectSeq(db.followerTrades, LAMBDA r : r.followerId = f)[i]
                        EXCEPT !.bybitOrderId = (@ # NULL)]],
     orders |-> SelectSeq(db.placedOrders, LAMBDA r : r.followerId = f),
     positions |-> [i \in DOMAIN SelectSeq(db.positions, LAMBDA r : r.userId = f) |->
                      [SelectSeq(db.positions, LAMBDA r : r.userId = f)[i]
                          EXCEPT !.createdAt = 0]],
     fees |-> SelectSeq(db.fees, LAMBDA r : r.followerId = f),
     copyingEnabled |-> db.users[f].copyingEnabled]

\* C14: in one copyBuy or copySell call every eligible follower ends up with
\* exactly the orders, FollowerTrade rows, Position rows, fees and copying
\* flag that its own processing alone produces, whatever the exchange and
\* the store do to the other followers; followers not eligible are untouched.
C14_FailureIsolation ==
    [][\A envs \in [Followers -> BatchEnvs] :
          /\ CopyBuyCall(envs) =>
                \A f \in Followers :
                   FollowerView(Store', f) =
                      IF users[f].copyingEnabled
                      THEN FollowerView(executeBuyForFollower(Store, f, leaderTrades[1],
                                            FillPrice("o1"), envs[f]), f)
                      ELSE FollowerView(Store, f)
          /\ CopySellCall(envs) =>
                \A f \in Followers :
                   FollowerView(Store', f) =
                      IF users[f].copyingEnabled
                      THEN FollowerView(executeSellForFollower(Store, f, leaderTrades[2],
                                            FillPrice("o2"), envs[f]), f)
                      ELSE FollowerView(Store, f)]_vars

\* The first follower's processing threw out of its own catch block (it was
\* processed and has no FollowerTrade) and the second follower's buy filled.
C14_Witness ==
    /\ <<1, "f1">> \in processed
    /\ FollowerTradeRows(1, "f1") = {}
    /\ \E i \in FollowerTradeRows(1, "f2") : followerTrades[i].status = "filled"
    /\ \E k \in 1..Len(positions) : positions[k].userId = "f2"

\* C15: a follower whose propagated order, buy or sell, failed with an
\* authentication error has a failed FollowerTrade carrying the error and its
\* copying flag disabled.
C15_AuthFailureDisablesCopying ==
    (/\ lastCall.op = "retryOrder"
     /\ ~lastCall.result.ok
     /\ lastCall.result.error = "Invalid API key") =>
            /\ \E i \in CallRows :
                  /\ followerTrades[i].status = "failed"
                  /\ followerTrades[i].errorMessage = "Invalid API key"
            /\ ~users[lastCall.followerId].copyingEnabled

-----------------------------------------------------------------------------
(* Leader Watcher connection loop: src/src/worker/leader-watcher.ts 37-100. *)
(* JavaScript runs start() and stop() on one thread: a step below is the    *)
(* code between two awaits.                                                 *)

MaxFailures == 6

\* catch (err) in start(): leave when stopped, else sleep for reconnectDelay.
catchError(w) ==
    IF ~w.running
    THEN [w EXCEPT !.pc = "returned"]
    ELSE [w EXCEPT !.pc = "sleep", !.failures = @ + 1,
                   !.sleeping = w.reconnectDelay]

\* while (true) in place of while (this.running) in watchLoop().
whileTrue(w) ==
    IF w.exchange
    THEN [w EXCEPT !.pc = "await", !.watchAfterStop = @ \/ w.stop # "no"]
    ELSE catchError(w)

\* while (this.running) in watchLoop(): call watchOrders and await it, or
\* return to start(), whose own while (this.running) then ends.
whileRunning(w) ==
    IF w.running
    THEN IF w.exchange
         THEN [w EXCEPT !.pc = "await", !.watchAfterStop = @ \/ w.stop # "no"]
         ELSE catchError(w)
    ELSE [w EXCEPT !.pc = "returned"]

\* watchLoop(): throws when no client is set.
watchLoop(w) ==
    IF ~w.exchange THEN catchError(w) ELSE whileRunning(w)

\* connect() after the old client is closed: decrypt the keys, create the
\* client, reset the delay; then start() goes on to watchLoop().
connect(w, throws) ==
    IF throws
    THEN catchError(w)
    ELSE watchLoop([w EXCEPT !.exchange = TRUE,
                             !.reconnectDelay = RECONNECT_DELAY,
                             !.clientAfterStop = @ \/ w.stop # "no",
                             !.closeCalled = FALSE,
                             !.unclosed = @ + 1])

\* await this.exchange.close(): the call on the client this.exchange refers
\* to now, whatever this.exchange is when the await resumes.
closeExchange(w) ==
    [w EXCEPT !.closeCalled = TRUE,
              !.unclosed = IF w.closeCalled THEN @ ELSE @ - 1]

\* The while (this.running) head of start() and connect() up to its await.
startLoop(w, throws) ==
    IF ~w.running THEN [w EXCEPT !.pc = "returned"]
    ELSE IF w.exchange THEN [closeExchange(w) EXCEPT !.pc = "closeOld"]
    ELSE connect(w, throws)

\* A step that fails counts against the bound only while the watcher runs.
MayFail(throws) == throws => (~watcher.running \/ watcher.failures < MaxFailures)

watcherIdle == <<invoiceVars, workerVars, pendingTrades, requests,
                 balanceSnapshots, snapshotRuns, clock, scheduler,
                 notifications>>

\* start(): this.running = true, then the loop.
WatcherStart(throws) ==
    /\ watcher.pc = "idle"
    /\ MayFail(throws)
    /\ watcher' = startLoop([watcher EXCEPT !.running = TRUE], throws)
    /\ UNCHANGED watcherIdle

\* connect(): the old client's close() settled (its error is swallowed).
CloseOldDone(throws) ==
    /\ watcher.pc = "closeOld"
    /\ MayFail(throws)
    /\ watcher' = connect(watcher, throws)
    /\ UNCHANGED watcherIdle

\* watchOrders() resolved with a batch: processOrder for each of its orders.
WatchReturns ==
    /\ watcher.pc = "await"
    /\ watcher' = [watcher EXCEPT !.pc = "batch", !.failures = 0]
    /\ UNCHANGED watcherIdle

\* watchOrders() rejected.
WatchThrows ==
    /\ watcher.pc = "await"
    /\ MayFail(TRUE)
    /\ watcher' = catchError(watcher)
    /\ UNCHANGED watcherIdle

\* The batch is processed: back to the head of watchLoop()'s loop.
BatchDone ==
    /\ watcher.pc = "batch"
    /\ watcher' = whileRunning(watcher)
    /\ UNCHANGED watcherIdle

\* The backoff sleep is over: double the delay up to the ceiling, loop.
SleepDone(throws) ==
    /\ watcher.pc = "sleep"
    /\ MayFail(throws)
    /\ watcher' = startLoop(
            [watcher EXCEPT !.reconnectDelay =
                                Min(@ * 2, MAX_RECONNECT_DELAY)], throws)
    /\ UNCHANGED watcherIdle

\* stop() up to its await: this.running = false, close() when a client is set.
StopRequest ==
    /\ watcher.pc \notin {"idle", "returned"}
    /\ watcher.stop = "no"
    /\ watcher' = [(IF watcher.exchange THEN closeExchange(watcher) ELSE watcher)
                        EXCEPT !.running = FALSE,
                               !.stopAt = watcher.pc,
                               !.stop = IF watcher.exchange THEN "closing"
                                        ELSE "done"]
    /\ UNCHANGED watcherIdle

\* stop() after close() settled: its error is swallowed, this.exchange = null.
StopClosed(closeThrows) ==
    /\ watcher.stop = "closing"
    /\ watcher' = [watcher EXCEPT !.exchange = FALSE, !.stop = "done"]
    /\ UNCHANGED watcherIdle

WatcherStep ==
    \/ \E throws \in BOOLEAN : CloseOldDone(throws)
    \/ WatchReturns
    \/ WatchThrows
    \/ BatchDone
    \/ \E throws \in BOOLEAN : SleepDone(throws)
    \/ \E closeThrows \in BOOLEAN : StopClosed(closeThrows)

InitWatcher ==
    /\ Init

NextWatcher ==
    \/ \E throws \in BOOLEAN : WatcherStart(throws)
    \/ StopRequest
    \/ WatcherStep

SpecWatcher == InitWatcher /\ [][NextWatcher]_vars

\* Every await of start() and stop() settles: close() resolves or rejects,
\* the sleep timer fires, a batch is processed, and watchOrders delivers or
\* rejects (a closed client rejects its pending calls).
SpecWatcherFair == SpecWatcher /\ WF_vars(WatcherStep)

RECURSIVE BackoffWait(_)
\* The wait after the k-th consecutive failure: 5s doubled k - 1 times, at most 60s.
BackoffWait(k) ==
    IF k <= 1 THEN RECONNECT_DELAY
    ELSE Min(2 * BackoffWait(k - 1), MAX_RECONNECT_DELAY)

\* C16: on consecutive failures while opening or reading the subscription the
\* reconnect waits are 5s, 10s, 20s, 40s, 60s, 60s, ...: the k-th consecutive
\* failure since the subscription last delivered is followed by a wait of
\* min(5s * 2^(k-1), 60s).
C16_ReconnectBackoff ==
    watcher.pc = "sleep" => watcher.sleeping = BackoffWait(watcher.failures)

\* C17: once stop() is requested watchOrders is not called again, no client
\* is created when the stop came while awaiting a batch, while processing one
\* or during the backoff sleep, stop() itself completes, and start() returns.
C17_StopTerminates ==
    /\ [](watcher.stop # "no" =>
            /\ ~watcher.watchAfterStop
            /\ watcher.stopAt \in {"await", "batch", "sleep"} =>
                    ~watcher.clientAfterStop)
    /\ (watcher.stop # "no") ~> (watcher.pc = "returned" /\ watcher.stop = "done")

C17_Witness ==
    /\ watcher.pc = "returned"
    /\ watcher.stop = "done"
    /\ watcher.stopAt = "sleep"
    /\ watcher.failures >= 2

-----------------------------------------------------------------------------
(* Pending trades: the decide route                                         *)
(* (src/src/app/api/pending-trades/[id]/decide/route.ts) and the expirer    *)
(* (src/src/worker/pending-trade-expirer.ts).  A request is a handler       *)
(* between two of its awaits; handlers of different requests interleave at  *)
(* their awaits.                                                            *)

MaxRequests == 2
MaxTime == 2

\* A pending_trades row as the schema's defaults give it.
NewPendingTrade(leaderTradeId, followerId, side, expiresAt) ==
    [leaderTradeId |-> leaderTradeId, followerId |-> followerId,
     symbol |-> "BTC/USDT", side |-> side, suggestedQuantity |-> 2,
     leaderFillPrice |-> 100, status |-> "pending", expiresAt |-> expiresAt]

Slots == 1..MaxRequests
FreeSlots == Slots \ {r.slot : r \in requests}

\* .update(pendingTrades).set({ status }).where(eq(pendingTrades.id, id))
setStatus(rows, id, status) == [rows EXCEPT ![id].status = status]

pendingIdle == <<invoiceVars, exchangeOrders, phase, lastCall, watcher,
                 balanceSnapshots, snapshotRuns, scheduler>>

\* createNotification: one insert into notifications whose error is caught
\* and logged; stored tells whether the row went in.  trade is the pending
\* trade the message is about.
createNotification(rows, userId, type, trade, stored) ==
    Append(rows, [userId |-> userId, type |-> type, trade |-> trade,
                  stored |-> stored])

\* POST decide up to the select's result: 404 for a trade of another user,
\* 400 for a trade no longer pending; else on to the update or the order.
DecideSelect(user, id, decision) ==
    /\ FreeSlots # {}
    /\ id \in DOMAIN pendingTrades
    /\ pendingTrades[id].followerId = user
    /\ pendingTrades[id].status = "pending"
    /\ requests' = requests \cup
            {[slot |-> CHOOSE n \in FreeSlots : \A m \in FreeSlots : n <= m,
              kind |-> "decide", decision |-> decision, ids |-> <<id>>,
              pc |-> IF decision = "reject" THEN "update" ELSE "order"]}
    /\ UNCHANGED <<storeVars, pendingTrades, clock, notifications, pendingIdle>>

\* decision === "reject": the update.
DecideReject(r) ==
    /\ r.kind = "decide" /\ r.pc = "update" /\ r.decision = "reject"
    /\ pendingTrades' = setStatus(pendingTrades, r.ids[1], "rejected")
    /\ requests' = requests \ {r}
    /\ UNCHANGED <<storeVars, clock, notifications, pendingIdle>>

\* Approve: placeMarketOrder settles; a rejected order is answered with 500.
DecideOrder(r, accepted) ==
    /\ r.kind = "decide" /\ r.pc = "order"
    /\ LET t == pendingTrades[r.ids[1]]
       IN  IF accepted
           THEN /\ StoreBecomes(placeMarketOrder(Store, t.followerId,
                                    t.leaderTradeId, t.symbol, t.side,
                                    t.suggestedQuantity))
                /\ requests' = (requests \ {r}) \cup {[r EXCEPT !.pc = "record"]}
           ELSE /\ requests' = requests \ {r}
                /\ UNCHANGED storeVars
    /\ UNCHANGED <<pendingTrades, clock, notifications, pendingIdle>>

\* Approve after the order: the FollowerTrade, the position of a buy, the
\* status update, the notification.
DecideRecord(r, stored) ==
    /\ r.kind = "decide" /\ r.pc = "record"
    /\ LET t == pendingTrades[r.ids[1]]
           traded == insertFollowerTrade(Store, t.leaderTradeId, t.followerId,
                         t.symbol, t.side, "filled",
                         RatioOf(users[t.followerId]), Len(placedOrders),
                         t.leaderFillPrice, NULL)
       IN  StoreBecomes(IF t.side = "buy"
                        THEN [traded EXCEPT !.positions =
                                Append(@, NewPosition(t.followerId, t.symbol,
                                            t.leaderFillPrice, t.suggestedQuantity,
                                            NULL, Len(@) + 1))]
                        ELSE traded)
    /\ pendingTrades' = setStatus(pendingTrades, r.ids[1], "approved")
    /\ notifications' = createNotification(notifications,
                            pendingTrades[r.ids[1]].followerId,
                            "trade_approved", r.ids[1], stored)
    /\ requests' = requests \ {r}
    /\ UNCHANGED <<clock, pendingIdle>>

\* Every pending row from row i on, due or not.
pendingFrom(rows, i) ==
    SelectSeq([k \in 1..Len(rows) |-> k],
              LAMBDA k : k >= i /\ rows[k].status = "pending")
\* The ids of the pending rows whose expiresAt has passed, in table order.
RECURSIVE expiredFrom(_, _)
expiredFrom(rows, i) ==
    IF i > Len(rows) THEN <<>>
    ELSE IF rows[i].status = "pending" /\ rows[i].expiresAt <= clock
    THEN <<i>> \o expiredFrom(rows, i + 1)
    ELSE expiredFrom(rows, i + 1)

\* PendingTradeExpirer.run up to the select's result.
ExpirerSelect ==
    /\ FreeSlots # {}
    /\ \A r \in requests : r.kind # "expire"
    /\ expiredFrom(pendingTrades, 1) # <<>>
    /\ requests' = requests \cup
            {[slot |-> CHOOSE n \in FreeSlots : \A m \in FreeSlots : n <= m,
              kind |-> "expire", decision |-> "expire",
              ids |-> expiredFrom(pendingTrades, 1), pc |-> "update"]}
    /\ UNCHANGED <<storeVars, pendingTrades, clock, notifications, pendingIdle>>

\* PendingTradeExpirer.run: the update of the next selected trade and its
\* notification.
ExpirerUpdate(r, stored) ==
    /\ r.kind = "expire"
    /\ pendingTrades' = setStatus(pendingTrades, r.ids[1], "expired")
    /\ notifications' = createNotification(notifications,
                            pendingTrades[r.ids[1]].followerId,
                            "trade_expired", r.ids[1], stored)
    /\ requests' = IF Len(r.ids) = 1 THEN requests \ {r}
                   ELSE (requests \ {r}) \cup {[r EXCEPT !.ids = Tail(@)]}
    /\ UNCHANGED <<storeVars, clock, pendingIdle>>

\* A minute passes.
Tick ==
    /\ clock < MaxTime
    /\ clock' = clock + 1
    /\ UNCHANGED <<storeVars, pendingTrades, requests, notifications, pendingIdle>>

\* Two fills of the leader recorded; one pending buy per follower, the
\* second with a longer approval window.
InitPending ==
    /\ leaderTrades = <<NewLeaderTrade(OrderPayload("o1", "closed"), "closed", 1),
                        NewLeaderTrade(OrderPayload("o2", "closed"), "closed", 2)>>
    /\ followerTrades = <<>>
    /\ positions = <<>>
    /\ fees = <<>>
    /\ users = InitUsers
    /\ placedOrders = <<>>
    /\ exchangeOrders = [o \in Orders |-> [state |-> "closed", recent |-> TRUE]]
    /\ phase = "streaming"
    /\ observed = Orders
    /\ copierCalls = [o \in Orders |-> 0]
    /\ ledgerCalls = [o \in Orders |-> 0]
    /\ reconciled = {}
    /\ processed = {}
    /\ sizings = {}
    /\ handles = {}
    /\ lastCall = NoCall
    /\ NoInvoicing
    /\ watcher = NewWatcher
    /\ pendingTrades = <<NewPendingTrade(1, "f1", "buy", 1),
                         NewPendingTrade(1, "f2", "buy", 2)>>
    /\ requests = {}
    /\ balanceSnapshots = <<>>
    /\ snapshotRuns = NoRuns
    /\ clock = 0
    /\ scheduler = NewScheduler
    /\ notifications = <<>>

NextPending ==
    \/ \E f \in Followers, id \in 1..2, d \in {"approve", "reject"} :
            DecideSelect(f, id, d)
    \/ \E r \in requests : DecideReject(r)
    \/ \E r \in requests, accepted \in BOOLEAN : DecideOrder(r, accepted)
    \/ \E r \in requests, stored \in BOOLEAN : DecideRecord(r, stored)
    \/ ExpirerSelect
    \/ \E r \in requests, stored \in BOOLEAN : ExpirerUpdate(r, stored)
    \/ Tick

SpecPending == InitPending /\ [][NextPending]_vars

Decided == {"approved", "rejected", "expired"}

\* C18: once a PendingTrade's status is approved, rejected or expired, no
\* later approve request, reject request or expirer run changes it.
C18_DecisionsTerminal ==
    [][\A i \in DOMAIN pendingTrades :
          pendingTrades[i].status \in Decided =>
              pendingTrades'[i].status = pendingTrades[i].status]_vars

-----------------------------------------------------------------------------
(* Follow mode: followers whose follow_mode is manual (schema.ts 77-78,     *)
(* set through the settings route) when the leader's fills are copied.      *)

\* follow_mode is auto or manual, approval_window_minutes within 1..60.
ManualUsers ==
    { [f \in Followers |->
          IF f = "f1"
          THEN [copyingEnabled |-> TRUE, copyRatioPercent |-> 10,
                maxTradeUsd |-> NULL, followMode |-> "manual",
                approvalWindowMinutes |-> w]
          ELSE [copyingEnabled |-> TRUE, copyRatioPercent |-> 10,
                maxTradeUsd |-> 100, followMode |-> m,
                approvalWindowMinutes |-> 5]] :
      w \in {1, 5, 60}, m \in {"auto", "manual"} }

InitManual ==
    /\ leaderTrades = <<NewLeaderTrade(OrderPayload("o1", "closed"), "closed", 1),
                        NewLeaderTrade(OrderPayload("o2", "closed"), "closed", 2)>>
    /\ followerTrades = <<>>
    /\ positions = <<>>
    /\ fees = <<>>
    /\ users \in ManualUsers
    /\ placedOrders = <<>>
    /\ exchangeOrders = [o \in Orders |-> [state |-> "closed", recent |-> TRUE]]
    /\ phase = "streaming"
    /\ observed = Orders
    /\ copierCalls = [o \in Orders |-> 0]
    /\ ledgerCalls = [o \in Orders |-> 0]
    /\ reconciled = {}
    /\ processed = {}
    /\ sizings = {}
    /\ handles = {}
    /\ lastCall = NoCall
    /\ NoInvoicing
    /\ NoServices

NextManual ==
    \/ \E envs \in [Followers -> CopierEnvs] : CopyBuyCall(envs)
    \/ \E envs \in [Followers -> CopierEnvs] : CopySellCall(envs)

SpecManual == InitManual /\ [][NextManual]_vars

\* C19: for a follower whose follow mode is manual a leader fill places no
\* order; it produces a PendingTrade with status pending whose expiry is the
\* fill time plus the follower's approval window.
C19_ManualModeDefersOrder ==
    \A f \in Followers :
        users[f].followMode = "manual" =>
            /\ \A i \in DOMAIN placedOrders : placedOrders[i].followerId # f
            /\ \A lt \in DOMAIN leaderTrades :
                  <<lt, f>> \in processed =>
                      \E i \in DOMAIN pendingTrades :
                          /\ pendingTrades[i].leaderTradeId = lt
                          /\ pendingTrades[i].followerId = f
                          /\ pendingTrades[i].status = "pending"
                          /\ pendingTrades[i].expiresAt =
                                clock + users[f].approvalWindowMinutes

-----------------------------------------------------------------------------
(* Balance Snapshot job: src/src/worker/balance-snapshot.ts 156-287, started *)
(* by the scheduler's timer (src/src/worker/fee-calculator.ts 152-185).  A   *)
(* run is the job between two of its awaits; the timer starts a run whenever *)
(* shouldRun() holds, whether or not an earlier run is still in flight.      *)

MaxRuns == 2
Balances == {100, 200}

RunSlots == 1..MaxRuns
FreeRunSlots == RunSlots \ {r.slot : r \in snapshotRuns.inFlight}

\* BalanceSnapshotJob.shouldRun: no marker, or a marker of another day.
snapshotShouldRun(marker, date) == marker # {date}

\* The select ... limit(1) of the follower's row of the day: its id, or NULL.
existingSnapshot(rows, userId, date) ==
    LET ids == {i \in DOMAIN rows :
                    rows[i].userId = userId /\ rows[i].snapshotDate = date}
    IN  IF ids = {} THEN NULL
        ELSE CHOOSE i \in ids : \A j \in ids : i <= j

\* The run after a follower is done: the next follower, or the marker.
nextFollower(r) ==
    IF r.i < Len(FollowerOrder)
    THEN [r EXCEPT !.i = @ + 1, !.pc = "fetch"]
    ELSE [r EXCEPT !.pc = "mark"]

snapshotIdle == <<invoiceVars, workerVars, watcher, pendingTrades, requests,
                  clock, scheduler, notifications>>

RunBecomes(r, q) ==
    snapshotRuns' = [snapshotRuns EXCEPT !.inFlight = (@ \ {r}) \cup {q}]

\* A scheduler tick: shouldRun(), then run() up to the first balance fetch.
SnapshotTick ==
    /\ FreeRunSlots # {}
    /\ snapshotShouldRun(snapshotRuns.marker, today)
    /\ snapshotRuns' = [snapshotRuns EXCEPT !.inFlight = @ \cup
            {[slot |-> CHOOSE n \in FreeRunSlots : \A m \in FreeRunSlots : n <= m,
              date |-> today, i |-> 1, pc |-> "fetch",
              balance |-> NULL, existing |-> NULL]}]
    /\ UNCHANGED <<balanceSnapshots, snapshotIdle>>

\* fetchUsdtBalance settles: the total, or an error caught for this follower.
SnapshotFetch(r, total, throws) ==
    /\ r.pc = "fetch"
    /\ IF throws
       THEN RunBecomes(r, nextFollower(r))
       ELSE snapshotRuns' =
                [snapshotRuns EXCEPT
                    !.inFlight = (@ \ {r}) \cup
                        {[r EXCEPT !.pc = "select", !.balance = total]},
                    !.fetched[FollowerOrder[r.i]] = total]
    /\ UNCHANGED <<balanceSnapshots, snapshotIdle>>

\* The select of the existing row settles.
SnapshotSelect(r) ==
    /\ r.pc = "select"
    /\ RunBecomes(r, [r EXCEPT !.pc = "write",
                        !.existing = existingSnapshot(balanceSnapshots,
                                        FollowerOrder[r.i], r.date)])
    /\ UNCHANGED <<balanceSnapshots, snapshotIdle>>

\* if (existing) update its balance, else insert a row.
SnapshotWrite(r) ==
    /\ r.pc = "write"
    /\ balanceSnapshots' =
            IF r.existing # NULL
            THEN [balanceSnapshots EXCEPT ![r.existing].balanceUsdt = r.balance]
            ELSE Append(balanceSnapshots,
                        [userId |-> FollowerOrder[r.i], balanceUsdt |-> r.balance,
                         snapshotDate |-> r.date])
    /\ RunBecomes(r, nextFollower([r EXCEPT !.balance = NULL, !.existing = NULL]))
    /\ UNCHANGED snapshotIdle

\* The marker upsert that ends the run.
SnapshotMark(r) ==
    /\ r.pc = "mark"
    /\ snapshotRuns' = [snapshotRuns EXCEPT !.inFlight = @ \ {r},
                                            !.marker = {r.date}]
    /\ UNCHANGED <<balanceSnapshots, snapshotIdle>>

\* A day that neither starts nor ends a quarter; no run yet.
InitSnapshot ==
    /\ leaderTrades = <<>>
    /\ followerTrades = <<>>
    /\ positions = <<>>
    /\ fees = <<>>
    /\ users = InitUsers
    /\ placedOrders = <<>>
    /\ exchangeOrders = [o \in Orders |-> [state |-> "none", recent |-> TRUE]]
    /\ phase = "streaming"
    /\ observed = {}
    /\ copierCalls = [o \in Orders |-> 0]
    /\ ledgerCalls = [o \in Orders |-> 0]
    /\ reconciled = {}
    /\ processed = {}
    /\ sizings = {}
    /\ handles = {}
    /\ lastCall = NoCall
    /\ invoices = <<>>
    /\ systemConfig = {}
    /\ snapshots = [f \in Followers |-> Snapshot(0, 0, 0, 0, 0)]
    /\ today = [year |-> 2026, month |-> 3, day |-> 15]
    /\ NoServices

NextSnapshot ==
    \/ SnapshotTick
    \/ \E r \in snapshotRuns.inFlight, total \in Balances, throws \in BOOLEAN :
            SnapshotFetch(r, total, throws)
    \/ \E r \in snapshotRuns.inFlight : SnapshotSelect(r)
    \/ \E r \in snapshotRuns.inFlight : SnapshotWrite(r)
    \/ \E r \in snapshotRuns.inFlight : SnapshotMark(r)

SpecSnapshot == InitSnapshot /\ [][NextSnapshot]_vars

SnapshotRows(f) ==
    {i \in DOMAIN balanceSnapshots :
        /\ balanceSnapshots[i].userId = f
        /\ balanceSnapshots[i].snapshotDate = today}

\* C20: after any number of Balance Snapshot runs on one calendar day,
\* re-triggered or overlapping, there is at most one BalanceSnapshot row per
\* (user, date), and once the runs are over it holds the balance fetched
\* last for that user.
C20_SnapshotUnique ==
    \A f \in Followers :
        /\ Cardinality(SnapshotRows(f)) <= 1
        /\ (snapshotRuns.inFlight = {} /\ snapshotRuns.fetched[f] # NULL) =>
                \E i \in SnapshotRows(f) :
                    balanceSnapshots[i].balanceUsdt = snapshotRuns.fetched[f]

-----------------------------------------------------------------------------
(* The job scheduler of the worker (SpecScheduler)                          *)

MaxTicks == 3

\* The jobs of runScheduledJobs in the order of its three try blocks.
JobOrder == <<"balanceSnapshot", "transferTracker", "invoice">>

\* What one job does in a tick: shouldRun() false, shouldRun() true and run()
\* returns, shouldRun() throws, or run() throws.
JobOutcomes == {"skip", "ran", "shouldRunThrows", "runThrows"}
Throws == {"shouldRunThrows", "runThrows"}

\* The jobs whose if (await job.shouldRun()) await job.run() sits in a try
\* block with a catch that only logs.
caughtJobs == {"balanceSnapshot", "transferTracker", "invoice"}

jobsAfterAbort(jobs, threw) == IF threw THEN <<>> ELSE Tail(jobs)
\* After a job's try/catch the next statement is the next job's try block,
\* whether the job returned or threw.
jobsAfterCatch(jobs, threw) == Tail(jobs)

\* runScheduledJobs: the log of the jobs that got their shouldRun() call.
RECURSIVE runScheduledJobs(_, _, _)
runScheduledJobs(jobs, outcomes, log) ==
    IF jobs = <<>> THEN log
    ELSE LET job == Head(jobs)
         IN  runScheduledJobs(jobsAfterCatch(jobs, outcomes[job] \in Throws),
                              outcomes,
                              Append(log, [job |-> job, outcome |-> outcomes[job]]))

\* The invoice job of this tick: shouldRun() reads the marker (and throws
\* when the store is down), run() throws when the marker upsert fails.
invoiceOutcome(down, markerFails) ==
    IF down THEN "shouldRunThrows"
    ELSE IF ~shouldRun(today, systemConfig) THEN "skip"
    ELSE IF markerFails THEN "runThrows"
    ELSE "ran"

SchedulerEnvs ==
    { [fault |-> "none", emailSent |-> TRUE],
      [fault |-> "invoice", emailSent |-> FALSE] }

InitScheduler ==
    /\ InitInvoice
    /\ snapshots = [f \in Followers |->
                       IF f = "f1" THEN Snapshot(90, 1000, 5000, 1000, 0)
                       ELSE Snapshot(30, 1000, 900, 0, 0)]

\* One firing of the scheduler's timer (and the call at start): the three
\* jobs in turn.  The snapshot and the transfer job are taken by their
\* outcome; the invoice job is the Invoice Generator.
SchedulerFires(snapshotJob, transferJob, down, envs, markerFails) ==
    /\ scheduler.alive
    /\ scheduler.ticks < MaxTicks
    /\ LET outcomes == [job \in caughtJobs |->
                           CASE job = "balanceSnapshot" -> snapshotJob
                             [] job = "transferTracker" -> transferJob
                             [] OTHER -> invoiceOutcome(down, markerFails)]
           log == runScheduledJobs(JobOrder, outcomes, <<>>)
           invoiceRan == \E k \in 1..Len(log) :
                            /\ log[k].job = "invoice"
                            /\ log[k].outcome \in {"ran", "runThrows"}
           done == run(invoices, systemConfig, getPreviousQuarter(today),
                       snapshots, envs, markerFails)
       IN  /\ invoices' = IF invoiceRan THEN done.invoices ELSE invoices
           /\ systemConfig' = IF invoiceRan THEN done.systemConfig
                              ELSE systemConfig
           /\ scheduler' =
                 [alive |-> \A k \in 1..Len(log) :
                               log[k].outcome \in Throws => log[k].job \in caughtJobs,
                  ticks |-> scheduler.ticks + 1,
                  last |-> log]
    /\ UNCHANGED <<watcher, pendingTrades, requests, balanceSnapshots,
                   snapshotRuns, clock, notifications, workerVars, snapshots,
                   today>>

SchedulerDayPasses ==
    /\ NextDate(today).year \in Years
    /\ NextDate(today).month \in Months
    /\ today' = NextDate(today)
    /\ UNCHANGED <<serviceVars, workerVars, invoices, systemConfig, snapshots>>

NextScheduler ==
    \/ \E snapshotJob \in JobOutcomes, transferJob \in JobOutcomes,
          down \in BOOLEAN, env \in SchedulerEnvs, markerFails \in BOOLEAN :
          SchedulerFires(snapshotJob, transferJob, down,
                         [f \in Followers |-> env], markerFails)
    \/ SchedulerDayPasses

SpecScheduler == InitScheduler /\ [][NextScheduler]_vars

\* C21: in every tick of the scheduler each of the three jobs gets its
\* shouldRun check in turn, whatever the jobs before it did (returned,
\* skipped or threw), and the timer stays alive for the later ticks.
C21_JobIsolation ==
    scheduler.ticks > 0 =>
        /\ scheduler.alive
        /\ Len(scheduler.last) = Len(JobOrder)
        /\ \A k \in 1..Len(JobOrder) : scheduler.last[k].job = JobOrder[k]

\* A second tick in which the snapshot job threw, the transfer job threw in
\* its run, and the invoice job still ran and stored its invoices.
C21_Witness ==
    /\ scheduler.ticks >= 2
    /\ Len(scheduler.last) = 3
    /\ scheduler.last[1].outcome = "shouldRunThrows"
    /\ scheduler.last[2].outcome = "runThrows"
    /\ scheduler.last[3].outcome = "ran"
    /\ invoices # <<>>
    /\ systemConfig = {<<2026, 1>>}

-----------------------------------------------------------------------------
(* The order of the writes of one fill (Spec) *)

\* The LeaderTrade row of a fill is in the store before the leader's ledger
\* is written or the copier is invoked for it.
UpsertFirst ==
    \A o \in Orders :
        (ledgerCalls[o] > 0 \/ copierCalls[o] > 0) => LeaderTradeRows(o) # {}

\* Every FollowerTrade, every follower Position and every Fee has the
\* LeaderTrade it comes from in the store, and the copier was invoked for it.
OriginPresent ==
    /\ \A i \in 1..Len(followerTrades) :
          \E l \in 1..Len(leaderTrades) :
             /\ leaderTrades[l].id = followerTrades[i].leaderTradeId
             /\ copierCalls[leaderTrades[l].bybitOrderId] > 0
    /\ \A p \in 1..Len(positions) :
          positions[p].userId # LEADER =>
             \E l \in 1..Len(leaderTrades) :
                /\ leaderTrades[l].positionGroupId = positions[p].positionGroupId
                /\ leaderTrades[l].side = "buy"
                /\ copierCalls[leaderTrades[l].bybitOrderId] > 0
    /\ \A k \in 1..Len(fees) :
          /\ positions[fees[k].positionId].userId = fees[k].followerId
          /\ \E i \in 1..Len(followerTrades), l \in 1..Len(leaderTrades) :
                /\ followerTrades[i].followerId = fees[k].followerId
                /\ followerTrades[i].side = "sell"
                /\ followerTrades[i].status = "filled"
                /\ leaderTrades[l].id = followerTrades[i].leaderTradeId
                /\ leaderTrades[l].side = "sell"
                /\ copierCalls[leaderTrades[l].bybitOrderId] > 0

\* The orders the Reconciler inserted (their fills never reach the copier).
ReconciledOrders == {r[1] : r \in reconciled}

\* C22 as stated: the LeaderTrade upsert, then the Copier invocation, then
\* any Position or Fee write of the fill, so no Position of a fill the
\* watcher handles (the leader's included) is written before the copier was
\* invoked for it, and every FollowerTrade, propagated Position and Fee has
\* its LeaderTrade.
C22_CopierBeforeAnyPosition ==
    /\ UpsertFirst
    /\ \A o \in Orders \ ReconciledOrders :
          ledgerCalls[o] > 0 => copierCalls[o] > 0
    /\ OriginPresent

\* C22: for every fill the LeaderTrade upsert precedes the leader's own
\* Position write, which precedes the Copier invocation, which precedes every
\* follower Position and Fee write of the fill; every FollowerTrade, every
\* Position created by propagation and every Fee has its LeaderTrade present.
C22_WriteOrder ==
    /\ UpsertFirst
    /\ \A o \in Orders : copierCalls[o] > 0 => ledgerCalls[o] > 0
    /\ OriginPresent

\* Both fills copied: a follower's lot closed with a Fee.
C22_Witness ==
    /\ copierCalls["o1"] > 0
    /\ copierCalls["o2"] > 0
    /\ fees # <<>>
    /\ \E p \in 1..Len(positions) :
          positions[p].userId # LEADER /\ positions[p].status = "closed"

-----------------------------------------------------------------------------
(* The Trade Copier over two buy fills and two sell fills of the leader on  *)
(* one symbol, so that a follower can hold several open lots (SpecLots)     *)

\* The fills in the order the watcher hands them to the copier.
LotFills ==
    << [id |-> "b1", symbol |-> "BTC/USDT", side |-> "buy", amount |-> 2000,
        status |-> "closed", filled |-> 2000, average |-> 100],
       [id |-> "b2", symbol |-> "BTC/USDT", side |-> "buy", amount |-> 2000,
        status |-> "closed", filled |-> 2000, average |-> 110],
       [id |-> "s1", symbol |-> "BTC/USDT", side |-> "sell", amount |-> 2000,
        status |-> "closed", filled |-> 2000, average |-> 120],
       [id |-> "s2", symbol |-> "BTC/USDT", side |-> "sell", amount |-> 2000,
        status |-> "closed", filled |-> 2000, average |-> 105] >>

LotUsers ==
    { [f \in Followers |->
          [copyingEnabled |-> IF f = "f1" THEN TRUE ELSE e,
           copyRatioPercent |-> 10, maxTradeUsd |-> NULL]] : e \in BOOLEAN }

\* A buy that opens a lot, one whose key the exchange rejects, one whose
\* balance fetch times out.
LotBuyEnvs ==
    { Env(NoError, 2000, NoRetry, NULL, 0, "none", FALSE),
      Env(NoError, 2000, <<"Invalid API key", "ok", "ok">>, NULL, 0, "none", FALSE),
      Env("request timeout", 0, NoRetry, NULL, 0, "none", FALSE) }

\* A sell at the leader's price with the select returning either end of the
\* lots, one filled at the first lot's entry price, one filled below it, one
\* the exchange rejects, one whose fee insert fails.
LotSellEnvs ==
    { Env(NoError, 0, NoRetry, NULL, 0, "none", FALSE),
      Env(NoError, 0, NoRetry, NULL, 0, "none", TRUE),
      Env(NoError, 0, NoRetry, 100, 0, "none", FALSE),
      Env(NoError, 0, NoRetry, 90, 0, "none", TRUE),
      Env(NoError, 0, <<"Insufficient funds", "ok", "ok">>, NULL, 0, "none", FALSE),
      Env(NoError, 0, NoRetry, NULL, 0, "fee", FALSE) }

InitLots ==
    /\ leaderTrades = [n \in 1..Len(LotFills) |->
                          NewLeaderTrade(LotFills[n], "closed", n)]
    /\ followerTrades = <<>>
    /\ positions = <<>>
    /\ fees = <<>>
    /\ users \in LotUsers
    /\ placedOrders = <<>>
    /\ exchangeOrders = [o \in Orders |-> [state |-> "none", recent |-> TRUE]]
    /\ phase = "streaming"
    /\ observed = {}
    /\ copierCalls = [o \in Orders |-> 0]
    /\ ledgerCalls = [o \in Orders |-> 0]
    /\ reconciled = {}
    /\ processed = {}
    /\ sizings = {}
    /\ handles = {}
    /\ lastCall = [op |-> "copy", fill |-> 0]
    /\ NoInvoicing
    /\ NoServices

\* handleFilledOrder's copier call for the n-th fill.
CopyFill(n, envs) ==
    /\ n = lastCall.fill + 1
    /\ n <= Len(LotFills)
    /\ LET lt == leaderTrades[n]
       IN  StoreBecomes(IF lt.side = "buy"
                        THEN copyBuy(Store, lt, lt.avgFillPrice,
                                     lt.filledQuantity, envs)
                        ELSE copySell(Store, lt, lt.avgFillPrice, envs))
    /\ lastCall' = [op |-> "copy", fill |-> n]
    /\ UNCHANGED <<exchangeOrders, phase, invoiceVars, serviceVars>>

NextLots ==
    \E n \in 1..Len(LotFills) :
       \E envs \in (IF LotFills[n].side = "buy" THEN [Followers -> LotBuyEnvs]
                    ELSE [Followers -> LotSellEnvs]) :
          CopyFill(n, envs)

SpecLots == InitLots /\ [][NextLots]_vars

\* What one copier call did for user u: the orders placed, the FollowerTrade
\* and Fee rows written, the lots closed.
NewOrders(u) ==
    {k \in (Len(placedOrders) + 1)..Len(placedOrders') :
        placedOrders'[k].followerId = u}
NewFollowerTrades(u) ==
    {k \in (Len(followerTrades) + 1)..Len(followerTrades') :
        followerTrades'[k].followerId = u}
NewFees(u) ==
    {k \in (Len(fees) + 1)..Len(fees') : fees'[k].followerId = u}
ClosedNow(u) ==
    {j \in 1..Len(positions) :
        /\ positions[j].userId = u
        /\ positions[j].status = "open"
        /\ positions'[j].status = "closed"}
PositionsKept(u) ==
    /\ \A j \in 1..Len(positions) :
          positions[j].userId = u => positions'[j] = positions[j]
    /\ \A j \in (Len(positions) + 1)..Len(positions') :
          positions'[j].userId # u

\* C23: a sell propagation for a follower with several open lots on the
\* symbol places its order for the entry quantity of the follower's oldest
\* open lot, and the lot it closes is that oldest one.
C23_SellActsOnOldestLot ==
    [][\A f \in Followers :
          LET open == OpenPositionsOf(positions, f, "BTC/USDT")
              oldest == OldestOpen(positions, f, "BTC/USDT")
          IN  (Cardinality(open) > 1 /\ lastCall'.fill > 2) =>
                 /\ \A k \in NewOrders(f) :
                       placedOrders'[k].amount = positions[oldest].entryQuantity
                 /\ \A j \in ClosedNow(f) : j = oldest]_vars

\* The users a propagation call must leave alone: the leader and every
\* follower whose copying is disabled when the call starts.
Ineligible == {LEADER} \cup {f \in Followers : ~users[f].copyingEnabled}

\* C24: a propagation call places no order, writes no FollowerTrade, makes no
\* exchange client and changes no Position for the leader or for a follower
\* whose copying is disabled when the call starts; its orders and
\* FollowerTrade rows are for followers with copying enabled only.
C24_OnlyEligibleFollowers ==
    [][\A u \in Ineligible :
          /\ NewOrders(u) = {}
          /\ NewFollowerTrades(u) = {}
          /\ NewFees(u) = {}
          /\ PositionsKept(u)
          /\ \A h \in handles' \ handles : h[2] # u]_vars

\* A follower who holds an open lot and whose copying was switched off by a
\* rejected key was passed over by the first sell, which the other follower
\* took part in.
C24_Witness ==
    \E f \in Followers, g \in Followers :
        /\ ~users[f].copyingEnabled
        /\ OpenPositionsOf(positions, f, "BTC/USDT") # {}
        /\ lastCall.fill = 3
        /\ <<3, f>> \notin processed
        /\ <<3, g>> \in handles

\* C25: when copySell processes a follower with copying enabled and no open
\* Position on the symbol, no exchange client is made for it, no order is
\* placed, no FollowerTrade and no Fee is written and its Positions stay as
\* they were.
C25_SellWithoutPositionSkips ==
    [][\A f \in Followers :
          (/\ lastCall'.fill > 2
           /\ lastCall' # lastCall
           /\ users[f].copyingEnabled
           /\ OpenPositionsOf(positions, f, "BTC/USDT") = {}) =>
              /\ <<lastCall'.fill, f>> \in processed'
              /\ <<lastCall'.fill, f>> \notin handles'
              /\ NewOrders(f) = {}
              /\ NewFollowerTrades(f) = {}
              /\ NewFees(f) = {}
              /\ PositionsKept(f)]_vars

\* The first sell went through a follower that never got a lot (both its
\* buys failed) while the other follower's lot was sold.
C25_Witness ==
    \E f \in Followers, g \in Followers :
        /\ users[f].copyingEnabled
        /\ <<3, f>> \in processed
        /\ <<3, f>> \notin handles
        /\ \A j \in 1..Len(positions) : positions[j].userId # f
        /\ <<3, g>> \in handles
        /\ \E j \in 1..Len(positions) :
              positions[j].userId = g /\ positions[j].status = "closed"

\* C26: a copier call writes a Fee for a follower only when it closed a lot
\* of that follower with realized P&L > 0, at most one, with that P&L as its
\* profitAmount; when the store takes the follower's writes, a close with
\* P&L > 0 always gets its Fee; a close with P&L <= 0 and a sell that found
\* no lot get none; every Fee has profitAmount > 0 and status calculated.
C26_FeeIffProfit ==
    [][\A n \in 1..Len(LotFills) :
          \A envs \in [Followers -> LotBuyEnvs \cup LotSellEnvs] :
             CopyFill(n, envs) =>
                /\ \A f \in Followers :
                      /\ Cardinality(NewFees(f)) <= 1
                      /\ \A k \in NewFees(f) :
                            \E j \in ClosedNow(f) :
                               /\ positions'[j].realizedPnl > 0
                               /\ fees'[k].profitAmount = positions'[j].realizedPnl
                      /\ (/\ envs[f].fault = "none"
                          /\ \E j \in ClosedNow(f) : positions'[j].realizedPnl > 0)
                            => NewFees(f) # {}
                /\ \A k \in 1..Len(fees') :
                      /\ fees'[k].profitAmount > 0
                      /\ fees'[k].status = "calculated"]_vars

\* Three lots closed, one at a profit, one at its entry price, one at a
\* loss, and a sell that found no lot: one Fee.
C26_Witness ==
    /\ Len(fees) = 1
    /\ \E j \in 1..Len(positions) :
          positions[j].status = "closed" /\ positions[j].realizedPnl > 0
    /\ \E j \in 1..Len(positions) :
          positions[j].status = "closed" /\ positions[j].realizedPnl = 0
    /\ \E j \in 1..Len(positions) :
          positions[j].status = "closed" /\ positions[j].realizedPnl < 0
          /\ positions[j].realizedPnl # NULL
    /\ \E f \in Followers : <<4, f>> \in processed /\ <<4, f>> \notin handles

-----------------------------------------------------------------------------
(* The watcher's loop over the orders of a batch, with store errors while   *)
(* an order is processed (SpecStream)                                       *)

\* Where processOrder throws for the k-th order of a batch: nowhere, at its first select
\* (nothing written), in handleFilledOrder after the LeaderTrade write, or in
\* the copier's select of the followers after the leader's ledger write.
ThrowPoints == {"none", "select", "afterUpsert", "afterLedger"}

\* The point is reached only when the order goes on to handleFilledOrder.
ReachedPoint(db, order, point) ==
    IF point \in {"afterUpsert", "afterLedger"} /\ ~handlesFill(db, order)
    THEN "none" ELSE point

\* for (const order of orders) await this.processOrder(order): no try block,
\* so the first order that throws ends the loop.  reached counts the orders
\* processOrder was called for.
RECURSIVE processBatch(_, _, _, _, _)
processBatch(db, batch, envs, points, reached) ==
    IF batch = <<>> THEN [db |-> db, threw |-> FALSE, reached |-> reached]
    ELSE LET order == Head(batch)
             point == ReachedPoint(db, order, points[reached + 1])
             d == IF point = "select" THEN db
                  ELSE processOrder(db, order, envs, point)
         IN  IF point # "none"
             THEN [db |-> d, threw |-> TRUE, reached |-> reached + 1]
             ELSE processBatch(d, Tail(batch), envs, points, reached + 1)

\* The batches watchOrders may deliver: one or two of the leader's orders.
Batches ==
    {<<o>> : o \in Orders}
    \cup {pair \in Orders \X Orders : pair[1] # pair[2]}

InitStream ==
    /\ leaderTrades = <<>>
    /\ followerTrades = <<>>
    /\ positions = <<>>
    /\ fees = <<>>
    /\ users = InitUsers
    /\ placedOrders = <<>>
    /\ exchangeOrders = [o \in Orders |-> [state |-> "none", recent |-> TRUE]]
    /\ phase = "streaming"
    /\ observed = {}
    /\ copierCalls = [o \in Orders |-> 0]
    /\ ledgerCalls = [o \in Orders |-> 0]
    /\ reconciled = {}
    /\ processed = {}
    /\ sizings = {}
    /\ handles = {}
    /\ lastCall = NoCall
    /\ NoInvoicing
    /\ NoServices

\* watchOrders() resolved with a batch and the for loop ran over it: back to
\* the head of watchLoop()'s loop, or into start()'s catch when an order
\* threw.
WatchBatch(ids, states, envs, points) ==
    /\ watcher.pc = "await"
    /\ \A k \in 1..Len(ids) : states[k] \in PastStates(exchangeOrders[ids[k]].state)
    /\ LET batch == [k \in 1..Len(ids) |-> OrderPayload(ids[k], states[k])]
           done == processBatch(Store, batch, envs, points, 0)
           w == [watcher EXCEPT !.failures = 0]
       IN  /\ MayFail(done.threw)
           /\ StoreBecomes(done.db)
           /\ watcher' = IF done.threw THEN catchError(w) ELSE whileRunning(w)
           /\ lastCall' = [op |-> "watchBatch", orders |-> ids,
                           reached |-> done.reached]
    /\ UNCHANGED <<exchangeOrders, phase, invoiceVars, pendingTrades, requests,
                   balanceSnapshots, snapshotRuns, clock, scheduler,
                   notifications>>

NextStream ==
    \/ \E o \in Orders, s \in {"open", "partial", "closed", "canceled"} :
          ExchangeStep(o, s)
    \/ WatcherStart(FALSE)
    \/ CloseOldDone(FALSE)
    \/ SleepDone(FALSE)
    \/ \E ids \in Batches :
          \E states \in [DOMAIN ids -> {"open", "partial", "closed", "canceled"}],
             k \in DOMAIN ids, point \in ThrowPoints :
             WatchBatch(ids, states, [f \in Followers |-> IdleEnv],
                        [j \in DOMAIN ids |-> IF j = k THEN point ELSE "none"])

SpecStream == InitStream /\ [][NextStream]_vars

\* C27: when processing one order of a batch raises an error, the remaining
\* orders of the batch are still processed (processOrder is called for every
\* order of the batch) and the watcher goes on to its next watchOrders call
\* without the reconnect wait.
C27_OrderErrorKeepsStreaming ==
    [][(lastCall' # lastCall /\ lastCall'.op = "watchBatch") =>
          /\ lastCall'.reached = Len(lastCall'.orders)
          /\ watcher'.pc = "await"]_vars

-----------------------------------------------------------------------------
(* Worker.start: the Reconciler's pass with failing fetches and a failing   *)
(* store, then the watcher (SpecReconcile)                                  *)

\* The loop of the pass when the store throws while order throwAt of the
\* list is handled (0: never): at the select of the existing row, or at the
\* leader's ledger write after the row is inserted.
RECURSIVE reconcileUntil(_, _, _, _, _, _)
reconcileUntil(db, exch, allOrders, throwAt, point, k) ==
    IF allOrders = <<>> THEN [db |-> db, threw |-> FALSE]
    ELSE LET order == OrderPayload(Head(allOrders), exch[Head(allOrders)].state)
             seen == findLeaderTrade(db, order.id) # 0
             row == NewLeaderTrade(order, ReconciledStatus(order.status),
                                   Len(db.leaderTrades) + 1)
             inserted == [insertLeaderTrade(
                             [db EXCEPT !.observed = @ \cup {order.id}], row)
                          EXCEPT !.reconciled = @ \cup {<<order.id, order.status>>}]
         IN  IF k = throwAt /\ point = "select"
             THEN [db |-> db, threw |-> TRUE]
             ELSE IF k = throwAt /\ ~seen /\ IsFill(order)
             THEN [db |-> inserted, threw |-> TRUE]
             ELSE reconcileUntil(reconcileOrder(db, order), exch,
                                 Tail(allOrders), throwAt, point, k + 1)

rethrows(threw) == threw
\* catch (err) { console.error(...) }: nothing leaves the try statement.
escapes(threw) == FALSE

\* finally { await exchange.close() }
releaseHandle(handle) == "closed"

\* reconcile(leader) with its failures: [db, open (the open orders fetched),
\* handle, returned].
reconcilePass(db, exch, openFails, closedFails, throwAt, point) ==
    LET open == IF openFails THEN <<>> ELSE fetchOpenOrders(exch)
        closed == IF closedFails THEN <<>> ELSE fetchClosedOrders(exch)
        pass == IF openFails THEN [db |-> db, threw |-> TRUE]
                ELSE reconcileUntil(db, exch, open \o closed, throwAt, point, 1)
    IN  [db |-> pass.db, open |-> open, threw |-> pass.threw,
         handle |-> releaseHandle("open"),
         returned |-> ~escapes(pass.threw)]

\* Worker.start: the pass, then the timers and leaderWatcher.start(); an
\* exception out of reconcile() ends the process before the watcher exists.
WorkerBoot(openFails, closedFails, throwAt, point, connectThrows) ==
    /\ watcher.pc = "idle"
    /\ phase = "down"
    /\ LET pass == reconcilePass(Store, exchangeOrders, openFails, closedFails,
                                 throwAt, point)
       IN  /\ StoreBecomes(pass.db)
           /\ lastCall' = [op |-> "reconcile", open |-> pass.open,
                           openFails |-> openFails, closedFails |-> closedFails,
                           threw |-> pass.threw, handle |-> pass.handle,
                           returned |-> pass.returned]
           /\ watcher' = IF pass.returned
                         THEN startLoop([watcher EXCEPT !.running = TRUE],
                                        connectThrows)
                         ELSE watcher
           /\ phase' = IF pass.returned THEN "streaming" ELSE "down"
    /\ UNCHANGED <<exchangeOrders, invoiceVars, pendingTrades, requests,
                   balanceSnapshots, snapshotRuns, clock, scheduler,
                   notifications>>

\* The process is killed and started again later: the store stays.
WorkerExit ==
    /\ phase = "streaming"
    /\ phase' = "down"
    /\ watcher' = NewWatcher
    /\ UNCHANGED <<storeVars, exchangeOrders, lastCall, invoiceVars,
                   pendingTrades, requests, balanceSnapshots, snapshotRuns,
                   clock, scheduler, notifications>>

NextReconcile ==
    \/ \E o \in Orders, s \in {"open", "partial", "closed", "canceled"} :
          ExchangeStep(o, s)
    \/ \E o \in Orders : Age(o)
    \/ \E openFails \in BOOLEAN, closedFails \in BOOLEAN, throwAt \in 0..2,
          point \in {"select", "ledger"}, connectThrows \in BOOLEAN :
          WorkerBoot(openFails, closedFails, throwAt, point, connectThrows)
    \/ WorkerExit

SpecReconcile == Init /\ [][NextReconcile]_vars

C28_WitnessThrow ==
    /\ lastCall.op = "reconcile"
    /\ lastCall.threw
    /\ leaderTrades # <<>>
    /\ watcher.pc = "await"

-----------------------------------------------------------------------------
(* The invoice job around each of the four quarter starts (SpecQuarter)     *)

\* The 15th of the last month of each quarter, the year's end included.
QuarterEves ==
    { [year |-> 2025, month |-> 12, day |-> 15],
      [year |-> 2026, month |-> 3, day |-> 15],
      [year |-> 2026, month |-> 6, day |-> 15],
      [year |-> 2026, month |-> 9, day |-> 15] }

InitQuarter ==
    /\ leaderTrades = <<>>
    /\ followerTrades = <<>>
    /\ positions = <<>>
    /\ fees = <<>>
    /\ users = InitUsers
    /\ placedOrders = <<>>
    /\ exchangeOrders = [o \in Orders |-> [state |-> "none", recent |-> TRUE]]
    /\ phase = "streaming"
    /\ observed = {}
    /\ copierCalls = [o \in Orders |-> 0]
    /\ ledgerCalls = [o \in Orders |-> 0]
    /\ reconciled = {}
    /\ processed = {}
    /\ sizings = {}
    /\ handles = {}
    /\ lastCall = NoCall
    /\ invoices = <<>>
    /\ systemConfig = {}
    /\ snapshots \in InvoiceSnapshots
    /\ NoServices
    /\ today \in QuarterEves

\* Time passes from the eve to the 1st of the new quarter and on to its 15th.
QuarterDayPasses ==
    /\ ~(today.day = 15 /\ today.month \in {1, 4, 7, 10})
    /\ today' = NextDate(today)
    /\ UNCHANGED <<serviceVars, workerVars, invoices, systemConfig, snapshots>>

NextQuarter ==
    \/ \E envs \in [Followers -> InvoiceEnvs], markerFails \in BOOLEAN :
          SchedulerTick(envs, markerFails)
    \/ \E envs \in [Followers -> InvoiceEnvs], markerFails \in BOOLEAN :
          AdminGenerate(envs, markerFails)
    \/ QuarterDayPasses

SpecQuarter == InitQuarter /\ [][NextQuarter]_vars

\* The quarter that ended before the date's quarter began, by the calendar.
JustEnded(d) ==
    IF d.month <= 3 THEN <<d.year - 1, 4>> ELSE <<d.year, (d.month - 1) \div 3>>

QuarterLabels == {<<2025, 3>>, <<2025, 4>>, <<2026, 1>>, <<2026, 2>>, <<2026, 3>>}

\* C29: a scheduled run of the Invoice Generator happens only on the 1st of
\* January, April, July or October, its invoices and its marker are for the
\* quarter that just ended, and from the moment the marker of a quarter is
\* stored shouldRun is false on every later tick that would target that
\* quarter.
C29_InvoiceScheduleGuard ==
    /\ [][\A envs \in [Followers -> InvoiceEnvs], markerFails \in BOOLEAN :
             SchedulerTick(envs, markerFails) =>
                /\ today.day = 1
                /\ today.month \in {1, 4, 7, 10}
                /\ systemConfig # {JustEnded(today)}
                /\ \A i \in (Len(invoices) + 1)..Len(invoices') :
                      invoices'[i].quarterLabel = JustEnded(today)
                /\ ~markerFails => systemConfig' = {JustEnded(today)}]_vars
    /\ \A q \in QuarterLabels :
          [](systemConfig = {q} =>
                [](JustEnded(today) = q => ~shouldRun(today, systemConfig)))

\* New Year's Day: the scheduled run made the invoices of the fourth quarter
\* of the year before and stored its marker.
C29_Witness ==
    /\ today = [year |-> 2026, month |-> 1, day |-> 1]
    /\ systemConfig = {<<2025, 4>>}
    /\ invoices # <<>>
    /\ \A i \in 1..Len(invoices) : invoices[i].quarterLabel = <<2025, 4>>
    /\ ~shouldRun(today, systemConfig)

-----------------------------------------------------------------------------
(* The effect of an expirer run (SpecPending) *)

\* The pending trades due at the current time.
DuePending ==
    {i \in DOMAIN pendingTrades :
        pendingTrades[i].status = "pending" /\ pendingTrades[i].expiresAt <= clock}

ExpirerRuns(rs) == {r \in rs : r.kind = "expire"}

\* C30: an expirer run selects exactly the trades that are pending with an
\* expiry at or before the run time, each once; each of its steps marks the
\* next selected trade expired, changes nothing else of that trade and no
\* other trade, and emits one trade_expired notification to that trade's
\* follower; the run ends after the last selected trade.
C30_ExpirerEffect ==
    [][/\ (ExpirerRuns(requests) = {} /\ ExpirerRuns(requests') # {}) =>
             /\ \A r \in ExpirerRuns(requests') :
                   /\ {r.ids[k] : k \in 1..Len(r.ids)} = DuePending
                   /\ Len(r.ids) = Cardinality(DuePending)
             /\ pendingTrades' = pendingTrades
             /\ notifications' = notifications
       /\ \A r \in ExpirerRuns(requests) :
             r \notin requests' =>
                LET id == r.ids[1]
                    n == Len(notifications)
                IN  /\ id \in DOMAIN pendingTrades
                    /\ pendingTrades' =
                          [pendingTrades EXCEPT ![id].status = "expired"]
                    /\ Len(notifications') = n + 1
                    /\ \A k \in 1..n : notifications'[k] = notifications[k]
                    /\ notifications'[n + 1].type = "trade_expired"
                    /\ notifications'[n + 1].trade = id
                    /\ notifications'[n + 1].userId = pendingTrades[id].followerId
                    /\ ExpirerRuns(requests') =
                          (IF Len(r.ids) = 1 THEN {}
                           ELSE {[r EXCEPT !.ids = Tail(r.ids)]})
       /\ (ExpirerRuns(requests) = {} /\ ExpirerRuns(requests') = {}) =>
             \A k \in (Len(notifications) + 1)..Len(notifications') :
                notifications'[k].type # "trade_expired"]_vars

\* A run at minute 1 expired the first trade and told its follower; the
\* second trade, due a minute later, is still pending.
C30_Witness ==
    /\ clock = 1
    /\ requests = {}
    /\ pendingTrades[1].status = "expired"
    /\ pendingTrades[2].status = "pending"
    /\ Len(notifications) = 1
    /\ notifications[1].type = "trade_expired"
    /\ notifications[1].userId = "f1"

-----------------------------------------------------------------------------
(* Trade sizing of a buy propagation (SpecCopier)                           *)

\* The buy orders the copier placed, as indices of placedOrders.
PlacedBuys == {k \in 1..Len(placedOrders) : placedOrders[k].side = "buy"}

\* The sizing inputs executeBuyForFollower read for order k.
SizingOf(k) ==
    {z \in sizings : /\ z.followerId = placedOrders[k].followerId
                     /\ z.leaderTradeId = placedOrders[k].leaderTradeId}

\* q thousandths of a unit is notional cents / price, cut to thousandths
Divides(q, cents, price) == q * price <= cents * 10 /\ cents * 10 < (q + 1) * price

\* C31: for every buy order the copier placed for a follower, the notional is
\* min(free balance x ratio%, maxTradeUsd), the ratio 10% when unset and no
\* cap when maxTradeUsd is unset; it never exceeds a set maxTradeUsd, and the
\* order's quantity is that notional divided by the leader's fill price.
C31_TradeSizing ==
    \A k \in PlacedBuys :
        /\ SizingOf(k) # {}
        /\ \A z \in SizingOf(k) :
              LET r == IF z.copyRatioPercent = NULL THEN 10 ELSE z.copyRatioPercent
                  byRatio == z.free * r
                  capped == z.maxTradeUsd # NULL /\ z.maxTradeUsd * 100 < byRatio
                  notional == IF capped THEN z.maxTradeUsd * 100 ELSE byRatio
              IN  /\ z.maxTradeUsd # NULL => notional <= z.maxTradeUsd * 100
                  /\ notional <= byRatio
                  /\ Divides(placedOrders[k].amount, notional,
                             leaderTrades[placedOrders[k].leaderTradeId].avgFillPrice)

\* In one propagation a follower with no ratio set is sized at 10% of 2000
\* USDT (200 USDT, 2.000 units at 100) while the other, capped at 100 USDT,
\* is ordered for 1.000 unit.
C31_Witness ==
    /\ \E k \in PlacedBuys : \E z \in SizingOf(k) :
          /\ z.copyRatioPercent = NULL /\ z.maxTradeUsd = NULL /\ z.free = 2000
          /\ placedOrders[k].amount = 2000
    /\ \E k \in PlacedBuys : \E z \in SizingOf(k) :
          /\ z.maxTradeUsd = 100 /\ z.free = 2000 /\ z.copyRatioPercent = 10
          /\ placedOrders[k].amount = 1000

-----------------------------------------------------------------------------
(* Orders and FollowerTrades per PendingTrade (SpecPending)                 *)

\* The exchange orders placed for pending trade i.
OrdersFor(i) ==
    {k \in 1..Len(placedOrders) :
        /\ placedOrders[k].followerId = pendingTrades[i].followerId
        /\ placedOrders[k].leaderTradeId = pendingTrades[i].leaderTradeId}

\* C32: for each PendingTrade at most one exchange order is ever placed and
\* at most one FollowerTrade is recorded, whatever the interleaving of
\* approve requests and the expirer.
C32_OneOrderPerPendingTrade ==
    \A i \in DOMAIN pendingTrades :
        /\ Cardinality(OrdersFor(i)) <= 1
        /\ Cardinality(FollowerTradeRows(pendingTrades[i].leaderTradeId,
                                         pendingTrades[i].followerId)) <= 1

-----------------------------------------------------------------------------
(* What a Fee row refers to (SpecLots)                                      *)

\* C33: every Fee row references a Position of the same follower that is
\* closed and whose realizedPnl equals the Fee's profitAmount, also when the
\* follower held several open Positions on the symbol at the sell.
C33_FeeReferencesClosedPosition ==
    \A k \in 1..Len(fees) :
        /\ fees[k].positionId \in 1..Len(positions)
        /\ positions[fees[k].positionId].userId = fees[k].followerId
        /\ positions[fees[k].positionId].status = "closed"
        /\ positions[fees[k].positionId].realizedPnl = fees[k].profitAmount

-----------------------------------------------------------------------------
(* A follower sell the exchange refuses (SpecRetry)                         *)

\* The step is executeSellForFollower for a follower holding a lot, and no
\* placement of its market sell was accepted.
SellFailed ==
    /\ lastCall'.op = "retryOrder"
    /\ lastCall'.side = "sell"
    /\ <<lastCall'.leaderTradeId, lastCall'.followerId>> \notin processed
    /\ Len(placedOrders') = Len(placedOrders)

\* C34: a follower sell whose market order fails, at once or after the
\* retries are used up, leaves every Position as it was (the follower's lot
\* still open), creates no Fee, and is recorded as one failed FollowerTrade.
C34_FailedSellLeavesLedger ==
    [][SellFailed =>
          /\ positions' = positions
          /\ fees' = fees
          /\ Len(followerTrades') = Len(followerTrades) + 1
          /\ LET row == followerTrades'[Len(followerTrades')]
             IN  /\ row.followerId = lastCall'.followerId
                 /\ row.leaderTradeId = lastCall'.leaderTradeId
                 /\ row.side = "sell"
                 /\ row.status = "failed"
                 /\ \E j \in 1..MAX_RETRIES :
                       /\ lastCall'.outcomes[j] # "ok"
                       /\ row.errorMessage = lastCall'.outcomes[j]
          /\ SubSeq(followerTrades', 1, Len(followerTrades)) = followerTrades]_vars

\* The sell was refused three times with retryable errors: the lot bought
\* before is still open, unsold, with a failed sell row and no Fee.
C34_Witness ==
    /\ lastCall.op = "retryOrder" /\ lastCall.side = "sell"
    /\ ~lastCall.result.ok /\ lastCall.result.attempts = 3
    /\ \E i \in 1..Len(positions) :
          /\ positions[i].userId = lastCall.followerId
          /\ positions[i].status = "open"
          /\ positions[i].realizedPnl = NULL
    /\ \E i \in CallRows : followerTrades[i].status = "failed"
    /\ fees = <<>>

-----------------------------------------------------------------------------
(* Runs of a scheduled job in flight (SpecSnapshot)                         *)

\* C35: at most one run of a scheduled job is in progress at any time, also
\* when a run is still in flight as the scheduler's timer fires again; here
\* for the balance snapshot job.
C35_OneRunAtATime == Cardinality(snapshotRuns.inFlight) <= 1

-----------------------------------------------------------------------------
(* Exchange clients left by a stopped watcher (SpecWatcher)                 *)

\* C36: once stop() has completed and start() has returned, every exchange
\* client the watcher created has had close() called on it and
\* this.exchange is cleared, wherever stop() met start().
C36_StoppedWatcherHoldsNoClient ==
    (watcher.pc = "returned" /\ watcher.stop = "done") =>
        /\ watcher.unclosed = 0
        /\ ~watcher.exchange

-----------------------------------------------------------------------------
(* The fill figures of a LeaderTrade under later updates (Spec)             *)

\* C37: once a LeaderTrade is recorded as a completed fill (status closed, a
\* positive filledQuantity and an avgFillPrice), no later update of that
\* order, whether stale or a duplicate, lowers its filledQuantity or clears
\* its avgFillPrice.
C37_CompletedFillKept ==
    [][\A i \in 1..Len(leaderTrades) :
          (/\ leaderTrades[i].status = "closed"
           /\ leaderTrades[i].filledQuantity > 0
           /\ leaderTrades[i].avgFillPrice # NULL) =>
              /\ leaderTrades'[i].filledQuantity >= leaderTrades[i].filledQuantity
              /\ leaderTrades'[i].avgFillPrice # NULL]_vars

-----------------------------------------------------------------------------
(* Approving after the approval window (SpecOverdue): the decide route and  *)
(* the expirer from a moment at which one pending trade is already past its *)
(* expiry and the expirer's next sweep has not run yet.                     *)

\* As InitPending, with f1's approval window over at the start and f2's
\* ending a minute later.
InitOverdue ==
    /\ leaderTrades = <<NewLeaderTrade(OrderPayload("o1", "closed"), "closed", 1),
                        NewLeaderTrade(OrderPayload("o2", "closed"), "closed", 2)>>
    /\ followerTrades = <<>>
    /\ positions = <<>>
    /\ fees = <<>>
    /\ users = InitUsers
    /\ placedOrders = <<>>
    /\ exchangeOrders = [o \in Orders |-> [state |-> "closed", recent |-> TRUE]]
    /\ phase = "streaming"
    /\ observed = Orders
    /\ copierCalls = [o \in Orders |-> 0]
    /\ ledgerCalls = [o \in Orders |-> 0]
    /\ reconciled = {}
    /\ processed = {}
    /\ sizings = {}
    /\ handles = {}
    /\ lastCall = NoCall
    /\ NoInvoicing
    /\ watcher = NewWatcher
    /\ pendingTrades = <<NewPendingTrade(1, "f1", "buy", 0),
                         NewPendingTrade(1, "f2", "buy", 1)>>
    /\ requests = {}
    /\ balanceSnapshots = <<>>
    /\ snapshotRuns = NoRuns
    /\ clock = 0
    /\ scheduler = NewScheduler
    /\ notifications = <<>>

SpecOverdue == InitOverdue /\ [][NextPending]_vars

\* The pending trades whose expiry had passed before any request came in.
Overdue == {i \in DOMAIN pendingTrades : pendingTrades[i].expiresAt <= 0}

\* C38: an approve decision on a PendingTrade whose expiry time has passed,
\* and which the expirer has not swept yet, places no order and does not
\* move the trade to approved.
C38_NoApproveAfterExpiry ==
    \A i \in Overdue :
        /\ OrdersFor(i) = {}
        /\ pendingTrades[i].status # "approved"

-----------------------------------------------------------------------------
(* The Reconciler run again on the lists of a pass (SpecRerun)              *)

\* The orders of a fetch as the exchange reports them at that moment.
Payloads(exch, ids) ==
    [k \in 1..Len(ids) |-> OrderPayload(ids[k], exch[ids[k]].state)]

\* for (const order of allOrders) { ... } over the fetched orders.
RECURSIVE reconcileAll(_, _)
reconcileAll(db, allOrders) ==
    IF allOrders = <<>> THEN db
    ELSE reconcileAll(reconcileOrder(db, Head(allOrders)), Tail(allOrders))

\* A pass: fetchOpenOrders answers, the open orders of filling fill at the
\* exchange, fetchClosedOrders answers, the loop runs over both lists.
ReconcileFetched(filling) ==
    /\ filling \subseteq {o \in Orders : exchangeOrders[o].state \in {"open", "partial"}}
    /\ LET later == [o \in Orders |->
                        IF o \in filling
                        THEN [exchangeOrders[o] EXCEPT !.state = "closed"]
                        ELSE exchangeOrders[o]]
           allOrders == Payloads(exchangeOrders, fetchOpenOrders(exchangeOrders))
                        \o Payloads(later, fetchClosedOrders(later))
       IN  /\ StoreBecomes(reconcileAll(Store, allOrders))
           /\ exchangeOrders' = later
           /\ lastCall' = [op |-> "reconcileLists", orders |-> allOrders,
                           again |-> FALSE]
    /\ UNCHANGED <<phase, invoiceVars, serviceVars>>

\* The loop once more over the lists of the last pass.
ReconcileAgain ==
    /\ lastCall.op = "reconcileLists"
    /\ StoreBecomes(reconcileAll(Store, lastCall.orders))
    /\ lastCall' = [lastCall EXCEPT !.again = TRUE]
    /\ UNCHANGED <<exchangeOrders, phase, invoiceVars, serviceVars>>

NextRerun ==
    \/ \E o \in Orders, s \in {"open", "partial", "closed", "canceled"} :
          ExchangeStep(o, s)
    \/ \E o \in Orders : Age(o)
    \/ \E filling \in SUBSET Orders : ReconcileFetched(filling)
    \/ ReconcileAgain

SpecRerun == Init /\ [][NextRerun]_vars

\* How often order o occurs in the lists of a pass.
Occurrences(orders, o) == Cardinality({k \in 1..Len(orders) : orders[k].id = o})

\* C39: running the Reconciler again on the same order lists inserts no
\* LeaderTrade and changes nothing in the Position Ledger, and in one pass an
\* order id, also one that is in the open and in the closed list, gets at
\* most one row and at most one ledger call.
C39_ReconcileIdempotent ==
    [][/\ (lastCall.op = "reconcileLists" /\ lastCall'.op = "reconcileLists"
           /\ lastCall'.again) =>
              /\ leaderTrades' = leaderTrades
              /\ positions' = positions
              /\ ledgerCalls' = ledgerCalls
       /\ (lastCall'.op = "reconcileLists" /\ ~lastCall'.again) =>
              \A o \in Orders :
                 /\ Cardinality({i \in 1..Len(leaderTrades') :
                                    leaderTrades'[i].bybitOrderId = o}) <= 1
                 /\ Occurrences(lastCall'.orders, o) >= 1 =>
                       Cardinality({i \in 1..Len(leaderTrades') :
                                       leaderTrades'[i].bybitOrderId = o}) = 1
                 /\ ledgerCalls'[o] <= ledgerCalls[o] + 1
                 /\ ledgerCalls'[o] <= 1]_vars

\* The second run over lists in which one order came back open and then
\* closed, and another closed one had opened the leader's Position.
C39_Witness ==
    /\ lastCall.op = "reconcileLists"
    /\ lastCall.again
    /\ \E o \in Orders :
          /\ Occurrences(lastCall.orders, o) = 2
          /\ Cardinality(LeaderTradeRows(o)) = 1
    /\ \E i \in 1..Len(positions) : positions[i].userId = LEADER

-----------------------------------------------------------------------------
(* Who gets an Invoice from a generation run (SpecGenerate)                 *)

\* The first day of a quarter, no Invoice yet; the followers' figures of the
\* quarter before are those of InvoiceSnapshots.
InitGenerate ==
    /\ leaderTrades = <<>>
    /\ followerTrades = <<>>
    /\ positions = <<>>
    /\ fees = <<>>
    /\ users = InitUsers
    /\ placedOrders = <<>>
    /\ exchangeOrders = [o \in Orders |-> [state |-> "none", recent |-> TRUE]]
    /\ phase = "streaming"
    /\ observed = {}
    /\ copierCalls = [o \in Orders |-> 0]
    /\ ledgerCalls = [o \in Orders |-> 0]
    /\ reconciled = {}
    /\ processed = {}
    /\ sizings = {}
    /\ handles = {}
    /\ lastCall = NoCall
    /\ invoices = <<>>
    /\ systemConfig = {}
    /\ snapshots \in InvoiceSnapshots
    /\ NoServices
    /\ today = [year |-> 2026, month |-> 4, day |-> 1]

\* InvoiceGenerator.run for the previous quarter, from the scheduler or the
\* admin route; lastCall keeps which store write failed for which follower.
GenerationRun(envs, markerFails) ==
    /\ Len(invoices) < MaxInvoices
    /\ LET quarter == getPreviousQuarter(today)
           done == run(invoices, systemConfig, quarter, snapshots, envs,
                       markerFails)
       IN  /\ invoices' = done.invoices
           /\ systemConfig' = done.systemConfig
           /\ lastCall' = [op |-> "generate", label |-> quarter.label,
                           from |-> Len(invoices),
                           fault |-> [f \in Followers |-> envs[f].fault]]
    /\ UNCHANGED <<storeVars, exchangeOrders, phase, snapshots, today,
                   serviceVars>>

NextGenerate ==
    \E envs \in [Followers -> InvoiceEnvs], markerFails \in BOOLEAN :
        GenerationRun(envs, markerFails)

SpecGenerate == InitGenerate /\ [][NextGenerate]_vars

\* The Invoice rows the last run inserted for follower f.
RunInvoices(f) ==
    {i \in (lastCall.from + 1)..Len(invoices) :
        invoices[i].followerId = f /\ invoices[i].quarterLabel = lastCall.label}

\* C40: every Invoice row has invoiceAmount = baseFee + bracketFee, at least
\* the base fee of 297, so no follower is skipped for a fee below 0.01: a
\* generation run gives every follower with at least one balance snapshot in
\* the quarter an Invoice, whether the quarter's profit is positive, zero or
\* negative (the store accepting the insert).
C40_InvoiceForEveryActiveFollower ==
    /\ \A i \in 1..Len(invoices) :
          /\ invoices[i].invoiceAmount = invoices[i].baseFee + invoices[i].bracketFee
          /\ invoices[i].baseFee = 297
          /\ invoices[i].bracketFee >= 0
          /\ invoices[i].invoiceAmount >= 297
    /\ lastCall.op = "generate" =>
          \A f \in Followers :
             /\ (snapshots[f].daysActive >= 1 /\ lastCall.fault[f] # "invoice") =>
                   Cardinality(RunInvoices(f)) = 1
             /\ snapshots[f].daysActive = 0 => RunInvoices(f) = {}

\* One run invoiced a follower whose quarter ended level and one who lost
\* money, each for the base fee alone.
C40_Witness ==
    /\ lastCall.op = "generate"
    /\ \E i \in RunInvoices("f1") :
          invoices[i].quarterProfit = 0 /\ invoices[i].invoiceAmount = 297
    /\ \E i \in RunInvoices("f2") :
          invoices[i].quarterProfit < 0 /\ invoices[i].invoiceAmount = 297

=============================================================================
